---- MODULE Spec2Model ----
(***************************************************************************)
(* A model of the datmo-tutorials notebooks.                               *)
(*                                                                         *)
(*   kaggle-titanic/sdk/experimentation.ipynb : the Titanic notebook, one  *)
(*       action per code cell, run top to bottom on a train and a test     *)
(*       table (Spec).                                                     *)
(*   get_title / title grouping / title mapping as pure functions of a     *)
(*       name (SpecTitle).                                                 *)
(*   otto-xgboost-R/notebook.Rmd : the label normalisation of the Otto     *)
(*       notebook as a pure function of a class string (SpecOtto), and the *)
(*       notebook chunk by chunk on small files (SpecOttoRun).             *)
(*   The whole Titanic notebook with TPOT and datmo (SpecRun), and two     *)
(*       runs of its feature engineering on the same files (SpecTwice).    *)
(*                                                                         *)
(* Numbers.  pandas holds Fare and Age as float64.  The model holds a raw  *)
(* fare as an integer count of 1/FareUnit and a raw age as an integer      *)
(* count of 1/AgeUnit years, so that medians, quartile edges and the       *)
(* comparisons with 7.91, 14.454 and 31 are exact.  A missing number is    *)
(* NaN; a missing string is "NaN".  Strings that the code takes apart      *)
(* (names, titles, class labels) are sequences of one-character strings.   *)
(***************************************************************************)
EXTENDS Integers, Sequences, FiniteSets, TLC

VARIABLES
    train,       \* the DataFrame train: [cols |-> <<names>>, rows |-> <<records>>]
    test,        \* the DataFrame test
    train_copy,  \* train_copy: a DataFrame, then (after .values) a matrix
    test_copy,   \* test_copy: a DataFrame, then (after .values) a matrix
    pc,          \* the next cell of the Titanic notebook to run
    t_name,      \* SpecTitle: the name given to get_title
    t_title,     \* SpecTitle: the Title value derived from t_name
    t_pc,        \* SpecTitle: the next step
    cells,       \* the code cells this run of the notebook executes, in order
    X,           \* X = train_copy[0::, 1::]
    y,           \* y = train_copy[0::, 0]
    X_train,     \* the four results of train_test_split
    X_test,
    y_train,
    y_test,
    tpot,        \* the TPOTClassifier: what it was fitted on
    prediction,  \* prediction = tpot.predict(test_copy)
    submission,  \* the DataFrame submission
    csv,         \* the file submission.csv
    snapshots,   \* the snapshots of the datmo project, in order of creation
    earlier,     \* an earlier run on the same files: what it read and handed over
    o_class,     \* SpecOtto: the class string of one training row
    o_y,         \* y: the label computed for o_class (SpecOtto), the labels of train
    o_pc,        \* SpecOtto: the next step
    o_train,     \* Otto notebook: the data.table train
    o_test,      \* Otto notebook: the data.table test
    nameLastCol, \* the name of the last column of train
    trainMatrix,
    testMatrix,
    numberOfClasses,
    param,       \* the parameter list of the first model
    bst,         \* the first model: what xgboost was called with
    xgb_train_1, \* the result of the grid search
    xgb_optimal_params,
    bst_optimal  \* the second model: what xgboost was called with

vars == <<train, test, train_copy, test_copy, pc, cells, X, y, X_train, X_test,
          y_train, y_test, tpot, prediction, submission, csv, snapshots, earlier,
          t_name, t_title, t_pc, o_class, o_y, o_pc, o_train, o_test, nameLastCol,
          trainMatrix, testMatrix, numberOfClasses, param, bst, xgb_train_1,
          xgb_optimal_params, bst_optimal>>

libVars == <<X, y, X_train, X_test, y_train, y_test, tpot>>
outVars == <<prediction, submission, csv>>
runVars == <<cells, libVars, outVars, snapshots, earlier>>
titanicVars == <<train, test, train_copy, test_copy, pc, runVars>>
titleVars == <<t_name, t_title, t_pc>>
ottoRunVars ==
    <<o_train, o_test, nameLastCol, trainMatrix, testMatrix, numberOfClasses, param,
      bst, xgb_train_1, xgb_optimal_params, bst_optimal>>
ottoVars == <<o_class, o_y, o_pc, ottoRunVars>>

(***************************************************************************)
(* Bounds of the model.                                                    *)
(***************************************************************************)
NTrain == 3       \* rows of train.csv
NTest == 3        \* rows of test.csv
MaxSibSp == 1     \* SibSp of the probe row ranges over 0..MaxSibSp
MaxParch == 1     \* Parch of the probe row ranges over 0..MaxParch
MaxDelta == 1     \* probe fares and ages lie within MaxDelta steps of each edge
MaxNameLen == 5   \* SpecTitle: names of up to MaxNameLen characters
MaxTokens == 4    \* SpecOtto: class strings of up to MaxTokens tokens

(***************************************************************************)
(* Units and the missing value.                                            *)
(***************************************************************************)
FareUnit == 4 * 10000   \* a fare of 1 is FareUnit: quarters of 0.0001
AgeUnit == 1 + 1         \* an age of 1 year is AgeUnit: half years
NaN == -1

IsNaN(x) == x = NaN

\* pandas comparisons of a float column with a number: False on NaN.
Le(x, c) == ~IsNaN(x) /\ x <= c
Gt(x, c) == ~IsNaN(x) /\ x > c

Range(s) == {s[i] : i \in DOMAIN s}

RECURSIVE SumSeq(_)
SumSeq(s) == IF s = <<>> THEN 0 ELSE Head(s) + SumSeq(Tail(s))

\* the values of s in ascending order
RECURSIVE SortAsc(_)
SortAsc(s) ==
    IF s = <<>> THEN <<>>
    ELSE LET m == CHOOSE i \in DOMAIN s : \A j \in DOMAIN s : s[i] <= s[j]
         IN <<s[m]>> \o SortAsc([k \in 1..(Len(s) - 1) |-> IF k < m THEN s[k] ELSE s[k + 1]])

RECURSIVE DropNaN(_)
DropNaN(s) ==
    IF s = <<>> THEN <<>>
    ELSE IF IsNaN(Head(s)) THEN DropNaN(Tail(s)) ELSE <<Head(s)>> \o DropNaN(Tail(s))

(***************************************************************************)
(* DataFrames.                                                             *)
(***************************************************************************)
Column(df, c) == [i \in DOMAIN df.rows |-> df.rows[i][c]]

\* df[c] = values (one per row): a new column is appended to the columns
SetColSeq(df, c, values) ==
    [cols |-> IF c \in Range(df.cols) THEN df.cols ELSE Append(df.cols, c),
     rows |-> [i \in DOMAIN df.rows |->
                 [k \in DOMAIN df.rows[i] \cup {c} |->
                     IF k = c THEN values[i] ELSE df.rows[i][k]]]]

\* df.drop(names, axis = 1)
DropCols(df, names) ==
    [cols |-> SelectSeq(df.cols, LAMBDA c : c \notin names),
     rows |-> [i \in DOMAIN df.rows |->
                 [k \in DOMAIN df.rows[i] \ names |-> df.rows[i][k]]]]

\* df.values: one sequence of cells per row, in column order
Values(df) ==
    [i \in DOMAIN df.rows |-> [j \in DOMAIN df.cols |-> df.rows[i][df.cols[j]]]]

(***************************************************************************)
(* Titles and names.                                                       *)
(***************************************************************************)
Mr == <<"M","r">>
Miss == <<"M","i","s","s">>
Mrs == <<"M","r","s">>
Master == <<"M","a","s","t","e","r">>
Rare == <<"R","a","r","e">>
Lady == <<"L","a","d","y">>
Countess == <<"C","o","u","n","t","e","s","s">>
Capt == <<"C","a","p","t">>
Col == <<"C","o","l">>
Don == <<"D","o","n">>
Dr == <<"D","r">>
Major == <<"M","a","j","o","r">>
Rev == <<"R","e","v">>
Sir == <<"S","i","r">>
Jonkheer == <<"J","o","n","k","h","e","e","r">>
Dona == <<"D","o","n","a">>
Mlle == <<"M","l","l","e">>
Ms == <<"M","s">>
Mme == <<"M","m","e">>

Letters ==
    {"A","B","C","D","E","F","G","H","I","J","K","L","M","N","O","P","Q","R","S",
     "T","U","V","W","X","Y","Z","a","b","c","d","e","f","g","h","i","j","k","l",
     "m","n","o","p","q","r","s","t","u","v","w","x","y","z"}

SetMin(S) == CHOOSE a \in S : \A b \in S : a <= b
SetMax(S) == CHOOSE a \in S : \A b \in S : a >= b

\* mutant: the pattern without its period, ' ([A-Za-z]+)'
MatchEnds_NoPeriod(s, i) ==
    IF s[i] # " " THEN {}
    ELSE {k \in (i + 1)..Len(s) : \A m \in (i + 1)..k : s[m] \in Letters}

\* The ends k of the matches of ' ([A-Za-z]+)\.' that start at position i: a
\* space at i, letters from i + 1 to k, a period at k + 1.
MatchEnds(s, i) ==
    IF s[i] # " " THEN {}
    ELSE {k \in (i + 1)..(Len(s) - 1) :
            /\ \A m \in (i + 1)..k : s[m] \in Letters
            /\ s[k + 1] = "."}

\* re.search(' ([A-Za-z]+)\.', name): the leftmost start, the longest run from
\* it (the + is greedy); group(1) is the run, "" when nothing matches.
get_title(name) ==
    LET starts == {i \in DOMAIN name : MatchEnds(name, i) # {}}
    IN IF starts = {} THEN <<>>
       ELSE LET i == SetMin(starts)
                k == SetMax(MatchEnds(name, i))
            IN SubSeq(name, i + 1, k)

\* Series.replace(olds, new) on one value: whole values, never substrings
Replace(v, olds, new) == IF v \in olds THEN new ELSE v

RareTitles == {Lady, Countess, Capt, Col, Don, Dr, Major, Rev, Sir, Jonkheer, Dona}

\* mutant: Ms grouped with Mrs, and Dona left out of the rare titles
group_title_Slip(t) ==
    LET t1 == Replace(t, RareTitles \ {Dona}, Rare)
        t2 == Replace(t1, {Mlle}, Miss)
        t3 == Replace(t2, {Ms}, Mrs)
    IN Replace(t3, {Mme}, Mrs)

\* the four replace calls of the title grouping cell, in order
group_title(t) ==
    LET t1 == Replace(t, RareTitles, Rare)
        t2 == Replace(t1, {Mlle}, Miss)
        t3 == Replace(t2, {Ms}, Miss)
    IN Replace(t3, {Mme}, Mrs)

(***************************************************************************)
(* The mapping tables of the cleaning cells.                               *)
(***************************************************************************)
sex_mapping == [female |-> 0, male |-> 1]
title_mapping == (Mr :> 1) @@ (Miss :> 2) @@ (Mrs :> 3) @@ (Master :> 4) @@ (Rare :> 5)
\* mutant: two ports share a code
embarked_mapping_Shared == [S |-> 0, C |-> 1, Q |-> 1]

embarked_mapping == [S |-> 0, C |-> 1, Q |-> 2]

\* Series.map(dict) on one value: NaN for a value that is no key
MapValue(v, mapping) == IF v \in DOMAIN mapping THEN mapping[v] ELSE NaN

\* Series.fillna(x) on one number
FillNa(v, x) == IF IsNaN(v) THEN x ELSE v

MapSex(v) == MapValue(v, sex_mapping)
MapEmbarked(v) == MapValue(v, embarked_mapping)
\* mutant: the fillna(0) left out
MapTitle_NoFill(t) == MapValue(t, title_mapping)

\* dataset['Title'].map(title_mapping) followed by fillna(0)
MapTitle(t) == FillNa(MapValue(t, title_mapping), 0)

(***************************************************************************)
(* Fare and Age bucketing: the .loc assignments of the cleaning cells, each *)
(* applied to the value the previous one left in the column.               *)
(***************************************************************************)
FareEdge1 == 316400     \* 7.91
FareEdge2 == 578160     \* 14.454
FareEdge3 == 1240000    \* 31

\* mutant: the first edge open on the upper side
FareStep1_Open(f) == IF ~IsNaN(f) /\ f < FareEdge1 THEN 0 * FareUnit ELSE f

FareStep1(f) == IF Le(f, FareEdge1) THEN 0 * FareUnit ELSE f
\* mutant: the second assignment without its lower edge
FareStep2_NoLower(f) == IF Le(f, FareEdge2) THEN 1 * FareUnit ELSE f

FareStep2(f) == IF Gt(f, FareEdge1) /\ Le(f, FareEdge2) THEN 1 * FareUnit ELSE f
FareStep3(f) == IF Gt(f, FareEdge2) /\ Le(f, FareEdge3) THEN 2 * FareUnit ELSE f
FareStep4(f) == IF Gt(f, FareEdge3) THEN 3 * FareUnit ELSE f

\* the Fare column after the four assignments, before astype(int)
MapFare(f) == FareStep4(FareStep3(FareStep2(FareStep1(f))))

\* astype(int) of a non-negative float held in units of 1/unit
AsInt(x, unit) == x \div unit

AgeEdge1 == 16
AgeEdge2 == 32
AgeEdge3 == 48
AgeEdge4 == 64

AgeStep1(a) == IF Le(a, AgeEdge1) THEN 0 ELSE a
\* mutant: the second interval open on the upper side
AgeStep2_Open(a) == IF Gt(a, AgeEdge1) /\ ~IsNaN(a) /\ a < AgeEdge2 THEN 1 ELSE a

AgeStep2(a) == IF Gt(a, AgeEdge1) /\ Le(a, AgeEdge2) THEN 1 ELSE a
AgeStep3(a) == IF Gt(a, AgeEdge2) /\ Le(a, AgeEdge3) THEN 2 ELSE a
AgeStep4(a) == IF Gt(a, AgeEdge3) /\ Le(a, AgeEdge4) THEN 3 ELSE a
\* mutant: the last line selects the ages above 64 and assigns nothing
AgeStep5_NoAssign(a) == a

AgeStep5(a) == IF Gt(a, AgeEdge4) THEN 4 ELSE a

\* the Age column (whole years by now) after the five assignments
MapAge(a) == AgeStep5(AgeStep4(AgeStep3(AgeStep2(AgeStep1(a)))))

(***************************************************************************)
(* Column statistics (pandas skips NaN).                                   *)
(***************************************************************************)
\* mutant: the upper middle value instead of the mean of the two middle values
Median_Upper(col) ==
    LET s == SortAsc(DropNaN(col))
        n == Len(s)
    IN IF n = 0 THEN NaN ELSE s[n \div 2 + 1]

\* Series.median(): NaN when every value is missing
Median(col) ==
    LET s == SortAsc(DropNaN(col))
        n == Len(s)
    IN IF n = 0 THEN NaN
       ELSE IF n % 2 = 1 THEN s[(n + 1) \div 2]
       ELSE (s[n \div 2] + s[n \div 2 + 1]) \div 2

\* pd.qcut(col, 4): four times the five quantile edges (linear interpolation
\* at the positions (n - 1) * j / 4), so that they stay whole numbers
QcutEdges4(col) ==
    LET s == SortAsc(DropNaN(col))
        n == Len(s)
    IN [j \in 0..4 |->
          LET lo == ((n - 1) * j) \div 4
              r == ((n - 1) * j) % 4
          IN IF r = 0 THEN 4 * s[lo + 1]
             ELSE 4 * s[lo + 1] + r * (s[lo + 2] - s[lo + 1])]

\* qcut raises ValueError when two bin edges coincide
QcutFails(edges) == \E j \in 0..3 : edges[j] = edges[j + 1]

\* the quartile interval (0..3) of x: intervals are closed on the right and the
\* first one includes the lowest value
QcutBin(edges, x) == SetMin({j \in 1..4 : 4 * x <= edges[j]}) - 1

\* pd.cut(col, 5) of whole-year ages between mn and mx: five equal-width
\* intervals, closed on the right; a column of one single value is cut around it
CutBin(mn, mx, a) ==
    IF mn = mx THEN 2
    ELSE IF a = mn THEN 0
    ELSE SetMin({k \in 1..5 : 5 * (a - mn) <= k * (mx - mn)}) - 1

\* The statistics of the ages that are present: their number n, their sum, and
\* dev = n * (sum of squares) - sum^2, which is n * (n - 1) * AgeUnit^2 times the
\* sample variance (ddof = 1); top bounds the whole years searched below.
AgeStats(col) ==
    LET s == DropNaN(col)
        n == Len(s)
        sum == SumSeq(s)
        sq == SumSeq([i \in DOMAIN s |-> s[i] * s[i]])
    IN [n |-> n, sum |-> sum, dev |-> n * sq - sum * sum,
        top |-> IF n = 0 THEN 0 ELSE SetMax(Range(s)) \div AgeUnit + 1]

\* k <= mean - std, for a whole number of years k
LeMeanMinusStd(st, k) ==
    LET d == st.sum - AgeUnit * st.n * k
    IN d >= 0 /\ st.n * st.dev <= (st.n - 1) * d * d

\* k >= mean - std
GeMeanMinusStd(st, k) ==
    LET d == st.sum - AgeUnit * st.n * k
    IN d <= 0 \/ st.n * st.dev >= (st.n - 1) * d * d

\* k <= mean + std
LeMeanPlusStd(st, k) ==
    LET d == AgeUnit * st.n * k - st.sum
    IN d <= 0 \/ (st.n - 1) * d * d <= st.n * st.dev

\* ilow = int(age_avg - age_std): int() truncates towards zero
RandLow(st) ==
    IF LeMeanMinusStd(st, 0)
    THEN SetMax({k \in 0..st.top : LeMeanMinusStd(st, k)})
    ELSE SetMin({k \in (0 - st.top)..0 : GeMeanMinusStd(st, k)})

\* ihigh = int(age_avg + age_std); the sum is never negative for ages >= 0
RandHigh(st) == SetMax({k \in 0..(2 * st.top) : LeMeanPlusStd(st, k)})

\* np.random.randint(age_avg - age_std, age_avg + age_std, size = ...) raises
\* ValueError: mean or std is NaN (fewer than two ages present), or low >= high
RandintFails(st) == st.n < 2 \/ RandLow(st) >= RandHigh(st)

(***************************************************************************)
(* The input tables.  Rows of the Kaggle files (fares in 1/FareUnit, ages  *)
(* in 1/AgeUnit years), and in each table one probe row whose fields range *)
(* over the values below.                                                  *)
(***************************************************************************)
Braund == <<"B","r","a","u","n","d",","," ","M","r","."," ","O","w","e","n"," ","H","a","r","r","i","s">>
Cumings == <<"C","u","m","i","n","g","s",","," ","M","r","s","."," ","J","o","h","n">>
Heikkinen == <<"H","e","i","k","k","i","n","e","n",","," ","M","i","s","s","."," ","L","a","i","n","a">>
Futrelle == <<"F","u","t","r","e","l","l","e",","," ","M","r","s","."," ","J","a","c","q","u","e","s">>
Allen == <<"A","l","l","e","n",","," ","M","r","."," ","W","i","l","l","i","a","m">>
Kelly == <<"K","e","l","l","y",","," ","M","r","."," ","J","a","m","e","s">>
Wilkes == <<"W","i","l","k","e","s",","," ","M","r","s","."," ","J","a","m","e","s">>
Myles == <<"M","y","l","e","s",","," ","M","r","."," ","T","h","o","m","a","s">>
Wirz == <<"W","i","r","z",","," ","M","r","."," ","A","l","b","e","r","t">>
Hirvonen == <<"H","i","r","v","o","n","e","n",","," ","M","r","s","."," ","A","l","e","x","a","n","d","e","r">>

\* a name with a title but no space before it, and a name with no period
NoSpaceName == <<"M","r",".","S","m","i","t","h">>
NoTitleName == <<"S","m","i","t","h"," ","J","o","h","n">>
\* a name with two candidates: the title and an initial
TwoTitleName == <<"H","a","y","s",","," ","M","r","s","."," ","C","l","a","r","a"," ","J",".">>

TrainColumns ==
    <<"PassengerId", "Survived", "Pclass", "Name", "Sex", "Age", "SibSp", "Parch",
      "Ticket", "Fare", "Cabin", "Embarked">>
TestColumns ==
    <<"PassengerId", "Pclass", "Name", "Sex", "Age", "SibSp", "Parch",
      "Ticket", "Fare", "Cabin", "Embarked">>

TrainRows ==
    <<[PassengerId |-> 1, Survived |-> 0, Pclass |-> 3, Name |-> Braund, Sex |-> "male", Age |-> 44, SibSp |-> 1, Parch |-> 0, Ticket |-> "A/5 21171", Fare |-> 290000, Cabin |-> "NaN", Embarked |-> "S"],
      [PassengerId |-> 2, Survived |-> 1, Pclass |-> 1, Name |-> Cumings, Sex |-> "female", Age |-> 76, SibSp |-> 1, Parch |-> 0, Ticket |-> "PC 17599", Fare |-> 2851332, Cabin |-> "C85", Embarked |-> "C"],
      [PassengerId |-> 4, Survived |-> 1, Pclass |-> 1, Name |-> Futrelle, Sex |-> "female", Age |-> 70, SibSp |-> 1, Parch |-> 0, Ticket |-> "113803", Fare |-> 2124000, Cabin |-> "C123", Embarked |-> "S"],
      [PassengerId |-> 5, Survived |-> 0, Pclass |-> 3, Name |-> Allen, Sex |-> "male", Age |-> 70, SibSp |-> 0, Parch |-> 0, Ticket |-> "373450", Fare |-> 322000, Cabin |-> "NaN", Embarked |-> "S"]>>
TestRows ==
    <<[PassengerId |-> 892, Pclass |-> 3, Name |-> Kelly, Sex |-> "male", Age |-> 69, SibSp |-> 0, Parch |-> 0, Ticket |-> "330911", Fare |-> 313168, Cabin |-> "NaN", Embarked |-> "Q"],
      [PassengerId |-> 893, Pclass |-> 3, Name |-> Wilkes, Sex |-> "female", Age |-> 94, SibSp |-> 1, Parch |-> 0, Ticket |-> "363272", Fare |-> 280000, Cabin |-> "NaN", Embarked |-> "S"],
      [PassengerId |-> 895, Pclass |-> 3, Name |-> Wirz, Sex |-> "male", Age |-> 54, SibSp |-> 0, Parch |-> 0, Ticket |-> "315154", Fare |-> 346500, Cabin |-> "NaN", Embarked |-> "S"],
      [PassengerId |-> 896, Pclass |-> 3, Name |-> Hirvonen, Sex |-> "female", Age |-> 44, SibSp |-> 1, Parch |-> 1, Ticket |-> "3101298", Fare |-> 491500, Cabin |-> "NaN", Embarked |-> "S"]>>
TrainProbeBase ==
    [PassengerId |-> 3, Survived |-> 1, Pclass |-> 3, Name |-> Heikkinen, Sex |-> "female", Age |-> 52, SibSp |-> 0, Parch |-> 0, Ticket |-> "STON/O2. 3101282", Fare |-> 317000, Cabin |-> "NaN", Embarked |-> "S"]
TestProbeBase ==
    [PassengerId |-> 894, Pclass |-> 2, Name |-> Myles, Sex |-> "male", Age |-> 124, SibSp |-> 0, Parch |-> 0, Ticket |-> "240276", Fare |-> 387500, Cabin |-> "NaN", Embarked |-> "Q"]

FareTick == 4           \* 0.0001
TopFare == 20493168     \* 512.3292
TopAge == 160           \* 80 years

FareProbes ==
    {e + d * FareTick : e \in {FareEdge1, FareEdge2, FareEdge3}, d \in (0 - MaxDelta)..MaxDelta}
        \cup {0, TopFare, NaN}
AgeProbes ==
    {AgeUnit * e + d : e \in {AgeEdge1, AgeEdge2, AgeEdge3, AgeEdge4}, d \in (0 - MaxDelta)..MaxDelta}
        \cup {1, TopAge, NaN}
SexProbes == {"female", "male", "unknown"}
EmbarkedProbes == {"S", "C", "Q", "NaN", "X"}
NameProbes ==
    {<<" ">> \o t \o <<".">> :
        t \in RareTitles \cup {Mr, Miss, Mrs, Master, Mlle, Ms, Mme, Rare, Sir \o <<"e">>}}
        \cup {NoSpaceName, NoTitleName}

\* the rows the probe row of a table ranges over: one group of fields at a time
Probes(base) ==
    {[base EXCEPT !.SibSp = s, !.Parch = p] : s \in 0..MaxSibSp, p \in 0..MaxParch}
        \cup {[base EXCEPT !.Fare = f] : f \in FareProbes}
        \cup {[base EXCEPT !.Age = a] : a \in AgeProbes}
        \cup {[base EXCEPT !.Sex = x] : x \in SexProbes}
        \cup {[base EXCEPT !.Embarked = e] : e \in EmbarkedProbes}
        \cup {[base EXCEPT !.Name = n] : n \in NameProbes}

\* pd.read_csv: the first rows of the file and the probe row last
ReadCsv(columns, rows, n, probe) ==
    [cols |-> columns, rows |-> SubSeq(rows, 1, n - 1) \o <<probe>>]

Unset == <<>>

\* The code cells of the notebook in order: those that assign train, test,
\* train_copy and test_copy, and all of them.
DataCells ==
    <<"FamilySize", "IsAlone", "Embarked", "Fare", "Age", "Name", "TitleGroup",
      "Clean1", "Select1", "Clean2", "Select2">>
NotebookCells ==
    <<"FamilySize", "IsAlone", "Embarked", "Fare", "Age", "Name", "TitleGroup",
      "SnapshotEDA", "Clean1", "Select1", "Fit1", "Submit1", "Snapshot1",
      "Clean2", "Select2", "Fit2", "Submit2", "Snapshot2">>

\* the cell that follows cell c in this run, "done" after the last one
After(c) ==
    LET i == CHOOSE k \in DOMAIN cells : cells[k] = c
    IN IF i = Len(cells) THEN "done" ELSE cells[i + 1]

\* before the notebook has run: nothing fitted, predicted, written or recorded
NothingRun ==
    /\ X = Unset /\ y = Unset
    /\ X_train = Unset /\ X_test = Unset /\ y_train = Unset /\ y_test = Unset
    /\ tpot = Unset
    /\ prediction = Unset /\ submission = Unset /\ csv = Unset
    /\ snapshots = <<>>

\* the Otto notebook has not run
OttoNothingRun ==
    /\ o_train = Unset /\ o_test = Unset /\ nameLastCol = "" /\ trainMatrix = Unset
    /\ testMatrix = Unset /\ numberOfClasses = NaN /\ param = Unset /\ bst = Unset
    /\ xgb_train_1 = Unset /\ xgb_optimal_params = Unset /\ bst_optimal = Unset
OttoOff == o_class = <<>> /\ o_y = NaN /\ o_pc = "off" /\ OttoNothingRun

\* no run is being compared with an earlier one
NoEarlierRun == earlier = [train |-> Unset, test |-> Unset, at |-> "none", out |-> Unset]

Init ==
    /\ \E p \in Probes(TrainProbeBase) : train = ReadCsv(TrainColumns, TrainRows, NTrain, p)
    /\ \E p \in Probes(TestProbeBase) : test = ReadCsv(TestColumns, TestRows, NTest, p)
    /\ train_copy = Unset
    /\ test_copy = Unset
    /\ pc = "FamilySize"
    /\ cells = DataCells
    /\ NothingRun
    /\ NoEarlierRun
    /\ t_name = <<>> /\ t_title = <<>> /\ t_pc = "off"
    /\ OttoOff

(***************************************************************************)
(* The cells of the Titanic notebook, in order.                            *)
(***************************************************************************)
\* mutant: the passenger is not counted
FamilySizeOf_NoSelf(row) == row.SibSp + row.Parch

FamilySizeOf(row) == row.SibSp + row.Parch + 1

\* for dataset in full_data: dataset['FamilySize'] = SibSp + Parch + 1
FamilySizeCell ==
    /\ pc = "FamilySize"
    /\ train' = SetColSeq(train, "FamilySize", [i \in DOMAIN train.rows |-> FamilySizeOf(train.rows[i])])
    /\ test' = SetColSeq(test, "FamilySize", [i \in DOMAIN test.rows |-> FamilySizeOf(test.rows[i])])
    /\ pc' = After("FamilySize")
    /\ UNCHANGED <<train_copy, test_copy, runVars, titleVars, ottoVars>>

\* mutant: alone when without sibling or spouse
IsAloneOf_SibSpOnly(row) == IF row.SibSp = 0 THEN 1 ELSE 0

\* dataset['IsAlone'] = 0; dataset.loc[dataset['FamilySize'] == 1, 'IsAlone'] = 1
IsAloneOf(row) == IF row.FamilySize = 1 THEN 1 ELSE 0

IsAloneCell ==
    /\ pc = "IsAlone"
    /\ train' = SetColSeq(train, "IsAlone", [i \in DOMAIN train.rows |-> IsAloneOf(train.rows[i])])
    /\ test' = SetColSeq(test, "IsAlone", [i \in DOMAIN test.rows |-> IsAloneOf(test.rows[i])])
    /\ pc' = After("IsAlone")
    /\ UNCHANGED <<train_copy, test_copy, runVars, titleVars, ottoVars>>

\* Series.fillna(x) on one string
FillNaStr(v, x) == IF v = "NaN" THEN x ELSE v

\* dataset['Embarked'] = dataset['Embarked'].fillna('S')
EmbarkedOf(row) == FillNaStr(row.Embarked, "S")

EmbarkedCell ==
    /\ pc = "Embarked"
    /\ train' = SetColSeq(train, "Embarked", [i \in DOMAIN train.rows |-> EmbarkedOf(train.rows[i])])
    /\ test' = SetColSeq(test, "Embarked", [i \in DOMAIN test.rows |-> EmbarkedOf(test.rows[i])])
    /\ pc' = After("Embarked")
    /\ UNCHANGED <<train_copy, test_copy, runVars, titleVars, ottoVars>>

\* mutant: the fares are not filled
FillFare_None(df, median) == df

\* for dataset in full_data: dataset['Fare'].fillna(train['Fare'].median()): the
\* median is taken anew for each dataset, the second time of the filled train.
\* Then train['CategoricalFare'] = pd.qcut(train['Fare'], 4).
FillFare(df, median) == SetColSeq(df, "Fare", [i \in DOMAIN df.rows |-> FillNa(df.rows[i].Fare, median)])

FareCell ==
    /\ pc = "Fare"
    /\ LET tr == FillFare(train, Median(Column(train, "Fare")))
           te == FillFare(test, Median(Column(tr, "Fare")))
           fares == Column(tr, "Fare")
           edges == QcutEdges4(fares)
       IN /\ test' = te
          /\ IF DropNaN(fares) # fares \/ QcutFails(edges)
             THEN train' = tr /\ pc' = "error"
             ELSE /\ train' = SetColSeq(tr, "CategoricalFare", [i \in DOMAIN tr.rows |-> QcutBin(edges, tr.rows[i].Fare)])
                  /\ pc' = After("Fare")
    /\ UNCHANGED <<train_copy, test_copy, runVars, titleVars, ottoVars>>

\* the positions of the missing ages, and the lists np.random.randint can return
\* for them: whole numbers in [ilow, ihigh)
MissingAges(df) == {i \in DOMAIN df.rows : IsNaN(df.rows[i].Age)}
AgeFills(df, st) == [MissingAges(df) -> RandLow(st)..(RandHigh(st) - 1)]

\* mutant: the records without age are dropped (dropna) instead of filled
ImputeAge_DropNa(df, fill) ==
    LET kept == SelectSeq(df.rows, LAMBDA r : ~IsNaN(r.Age))
    IN [cols |-> df.cols,
        rows |-> [i \in DOMAIN kept |-> [kept[i] EXCEPT !.Age = AsInt(kept[i].Age, AgeUnit)]]]

\* dataset['Age'][np.isnan(dataset['Age'])] = age_null_random_list, then
\* dataset['Age'] = dataset['Age'].astype(int)
ImputeAge(df, fill) ==
    SetColSeq(df, "Age",
        [i \in DOMAIN df.rows |->
            AsInt(IF IsNaN(df.rows[i].Age) THEN fill[i] * AgeUnit ELSE df.rows[i].Age,
                  AgeUnit)])

\* train['CategoricalAge'] = pd.cut(train['Age'], 5)
CutAge(df) ==
    LET ages == Column(df, "Age")
        mn == SetMin(Range(ages))
        mx == SetMax(Range(ages))
    IN SetColSeq(df, "CategoricalAge", [i \in DOMAIN df.rows |-> CutBin(mn, mx, df.rows[i].Age)])

\* The Age cell: train, then test; an exception in the loop leaves what was
\* assigned before it.
AgeCell ==
    /\ pc = "Age"
    /\ LET st1 == AgeStats(Column(train, "Age"))
           st2 == AgeStats(Column(test, "Age"))
       IN IF RandintFails(st1)
          THEN pc' = "error" /\ UNCHANGED <<train, test>>
          ELSE \E f1 \in AgeFills(train, st1) :
                 IF RandintFails(st2)
                 THEN train' = ImputeAge(train, f1) /\ pc' = "error" /\ UNCHANGED test
                 ELSE \E f2 \in AgeFills(test, st2) :
                        /\ test' = ImputeAge(test, f2)
                        /\ train' = CutAge(ImputeAge(train, f1))
                        /\ pc' = After("Age")
    /\ UNCHANGED <<train_copy, test_copy, runVars, titleVars, ottoVars>>

\* dataset['Title'] = dataset['Name'].apply(get_title)
TitleOf(row) == get_title(row.Name)

NameCell ==
    /\ pc = "Name"
    /\ train' = SetColSeq(train, "Title", [i \in DOMAIN train.rows |-> TitleOf(train.rows[i])])
    /\ test' = SetColSeq(test, "Title", [i \in DOMAIN test.rows |-> TitleOf(test.rows[i])])
    /\ pc' = After("Name")
    /\ UNCHANGED <<train_copy, test_copy, runVars, titleVars, ottoVars>>

\* the title grouping cell
GroupedTitleOf(row) == group_title(row.Title)

TitleGroupCell ==
    /\ pc = "TitleGroup"
    /\ train' = SetColSeq(train, "Title", [i \in DOMAIN train.rows |-> GroupedTitleOf(train.rows[i])])
    /\ test' = SetColSeq(test, "Title", [i \in DOMAIN test.rows |-> GroupedTitleOf(test.rows[i])])
    /\ pc' = After("TitleGroup")
    /\ UNCHANGED <<train_copy, test_copy, runVars, titleVars, ottoVars>>

(***************************************************************************)
(* Data cleaning.  .astype(int) raises ValueError on a NaN, so a Sex or an  *)
(* Embarked value outside its table stops the cell; what the loop assigned *)
(* before stays assigned.                                                  *)
(***************************************************************************)
\* mutant: astype(int) lets a NaN pass
SexFails_Never(df) == FALSE

SexFails(df) == \E i \in DOMAIN df.rows : IsNaN(MapSex(df.rows[i].Sex))
EmbarkedFails(df) == \E i \in DOMAIN df.rows : IsNaN(MapEmbarked(df.rows[i].Embarked))

CleanSex(df) == SetColSeq(df, "Sex", [i \in DOMAIN df.rows |-> MapSex(df.rows[i].Sex)])
CleanTitle(df) == SetColSeq(df, "Title", [i \in DOMAIN df.rows |-> MapTitle(df.rows[i].Title)])
CleanEmbarked(df) == SetColSeq(df, "Embarked", [i \in DOMAIN df.rows |-> MapEmbarked(df.rows[i].Embarked)])
\* the four .loc assignments and dataset['Fare'].astype(int)
CleanFare(df) == SetColSeq(df, "Fare", [i \in DOMAIN df.rows |-> AsInt(MapFare(df.rows[i].Fare), FareUnit)])
CleanAge(df) == SetColSeq(df, "Age", [i \in DOMAIN df.rows |-> MapAge(df.rows[i].Age)])
\* dataset['FarePerPerson'] = dataset['Fare'] / (dataset['FamilySize'] + 1): the
\* quotient is kept as <<numerator, denominator>>, the fare in 1/FareUnit
FarePerPersonOf(row) == <<row.Fare, row.FamilySize + 1>>
CleanFarePerPerson(df) == SetColSeq(df, "FarePerPerson", [i \in DOMAIN df.rows |-> FarePerPersonOf(df.rows[i])])

\* the body of the loop of the first cleaning cell on one dataset
Clean1(df) ==
    IF SexFails(df) THEN [ok |-> FALSE, df |-> df]
    ELSE IF EmbarkedFails(df) THEN [ok |-> FALSE, df |-> CleanTitle(CleanSex(df))]
    ELSE [ok |-> TRUE,
          df |-> CleanAge(CleanFare(CleanEmbarked(CleanTitle(CleanSex(df)))))]

\* the body of the loop of the second cleaning cell on one dataset
Clean2(df) ==
    IF SexFails(df) THEN [ok |-> FALSE, df |-> df]
    ELSE IF EmbarkedFails(df) THEN [ok |-> FALSE, df |-> CleanTitle(CleanSex(df))]
    ELSE [ok |-> TRUE,
          df |-> CleanAge(CleanFarePerPerson(CleanEmbarked(CleanTitle(CleanSex(df)))))]

\* mutant: train_copy = train and test_copy = test, without .copy(): the loop
\* writes into train and test
Clean1Cell_InPlace ==
    /\ pc = "Clean1"
    /\ LET a == Clean1(train)
           b == Clean1(test)
       IN /\ train' = a.df
          /\ test' = IF a.ok THEN b.df ELSE test
          /\ train_copy' = a.df
          /\ test_copy' = IF a.ok THEN b.df ELSE test
          /\ pc' = IF a.ok /\ b.ok THEN After("Clean1") ELSE "error"
    /\ UNCHANGED <<runVars, titleVars, ottoVars>>

\* train_copy = train.copy(); test_copy = test.copy(); the loop over both
Clean1Cell ==
    /\ pc = "Clean1"
    /\ LET a == Clean1(train)
           b == Clean1(test)
       IN /\ train_copy' = a.df
          /\ test_copy' = IF a.ok THEN b.df ELSE test
          /\ pc' = IF a.ok /\ b.ok THEN After("Clean1") ELSE "error"
    /\ UNCHANGED <<train, test, runVars, titleVars, ottoVars>>

\* mutant: FamilySize is not among the dropped columns
drop_elements1_NoFamilySize == {"PassengerId", "Name", "Ticket", "Cabin", "SibSp", "Parch"}

drop_elements1 == {"PassengerId", "Name", "Ticket", "Cabin", "SibSp", "Parch", "FamilySize"}
\* mutant: the raw Fare is not among the dropped columns of the second variant
drop_elements2_KeepFare == {"PassengerId", "Name", "Ticket", "Cabin", "SibSp", "Parch", "IsAlone"}

drop_elements2 == {"PassengerId", "Name", "Ticket", "Cabin", "SibSp", "Parch", "IsAlone", "Fare"}
\* mutant: CategoricalAge stays in the train matrix
drop_categorical_FareOnly == {"CategoricalFare"}

drop_categorical == {"CategoricalAge", "CategoricalFare"}

\* Feature selection: the drops, then .values
Select(df, drop_elements) == Values(DropCols(df, drop_elements))

Select1Cell ==
    /\ pc = "Select1"
    /\ train_copy' = Select(train_copy, drop_elements1 \cup drop_categorical)
    /\ test_copy' = Select(test_copy, drop_elements1)
    /\ pc' = After("Select1")
    /\ UNCHANGED <<train, test, runVars, titleVars, ottoVars>>

Clean2Cell ==
    /\ pc = "Clean2"
    /\ LET a == Clean2(train)
           b == Clean2(test)
       IN /\ train_copy' = a.df
          /\ test_copy' = IF a.ok THEN b.df ELSE test
          /\ pc' = IF a.ok /\ b.ok THEN After("Clean2") ELSE "error"
    /\ UNCHANGED <<train, test, runVars, titleVars, ottoVars>>

Select2Cell ==
    /\ pc = "Select2"
    /\ train_copy' = Select(train_copy, drop_elements2 \cup drop_categorical)
    /\ test_copy' = Select(test_copy, drop_elements2)
    /\ pc' = After("Select2")
    /\ UNCHANGED <<train, test, runVars, titleVars, ottoVars>>

(***************************************************************************)
(* The cells that use the collaborators: TPOT (fit, score, predict, export)  *)
(* and datmo (snapshot create).  What a collaborator computes is outside     *)
(* the notebook: a score and a predicted label are any value its contract    *)
(* allows, and train_test_split shuffles with any permutation.             *)
(***************************************************************************)
\* mutant: the slice from column 0 on, which keeps the first column
ColumnsFrom1_All(m) == m

\* m[0::, 1::] and m[0::, 0] of a matrix m
ColumnsFrom1(m) == [i \in DOMAIN m |-> Tail(m[i])]
Column0(m) == [i \in DOMAIN m |-> m[i][1]]

\* train_test_split(X, y, train_size = 0.75, test_size = 0.25): the first
\* ceil(0.25 n) indices of a permutation are the test part, the next
\* floor(0.75 n) the train part
train_test_split(Xm, yv, perm) ==
    LET n == Len(Xm)
        n_test == (n + 3) \div 4
        n_train == (3 * n) \div 4
    IN [X_train |-> [i \in 1..n_train |-> Xm[perm[n_test + i]]],
        X_test |-> [i \in 1..n_test |-> Xm[perm[i]]],
        y_train |-> [i \in 1..n_train |-> yv[perm[n_test + i]]],
        y_test |-> [i \in 1..n_test |-> yv[perm[i]]]]

\* tpot.fit(X_train, y_train) and tpot.export(...): the classifier knows the
\* matrix and the labels it was fitted on
Fit(Xm, yv) == [X |-> Xm, y |-> yv, classes |-> Range(yv), exported |-> TRUE]

\* The TPOT cell (the same text in both variants).  The printed score is not
\* kept.
FitCell(c) ==
    /\ pc = c
    /\ \E perm \in Permutations(DOMAIN train_copy) :
          LET s == train_test_split(ColumnsFrom1(train_copy), Column0(train_copy), perm)
          IN /\ X' = ColumnsFrom1(train_copy)
             /\ y' = Column0(train_copy)
             /\ X_train' = s.X_train
             /\ X_test' = s.X_test
             /\ y_train' = s.y_train
             /\ y_test' = s.y_test
             /\ tpot' = Fit(s.X_train, s.y_train)
    /\ pc' = After(c)
    /\ UNCHANGED <<train, test, train_copy, test_copy, cells, earlier, outVars, snapshots,
                   titleVars, ottoVars>>

Fit1Cell == FitCell("Fit1")
Fit2Cell == FitCell("Fit2")

\* tpot.predict(m): one label per row of m, each a class seen by fit
Predictions(m) == [DOMAIN m -> tpot.classes]

\* mutant: the row index of test in the place of its PassengerId column
Submission_ByIndex(t, p) ==
    [cols |-> <<"PassengerId", "Survived">>,
     rows |-> [i \in DOMAIN t.rows |-> [PassengerId |-> i - 1, Survived |-> p[i]]]]

\* pd.DataFrame({"PassengerId": test["PassengerId"], "Survived": prediction}):
\* the columns in the order of the sorted keys, the rows by position
Submission(t, p) ==
    [cols |-> <<"PassengerId", "Survived">>,
     rows |-> [i \in DOMAIN t.rows |->
                 [PassengerId |-> t.rows[i].PassengerId, Survived |-> p[i]]]]

\* df.to_csv(file, index = False): the header line, then a line per row with the
\* cells in column order
to_csv(df) == [header |-> df.cols, lines |-> Values(df)]

\* pd.read_csv(file): the columns named by the header line, a row per line
read_csv(file) ==
    [cols |-> file.header,
     rows |-> [i \in DOMAIN file.lines |->
                 [c \in Range(file.header) |->
                     file.lines[i][CHOOSE j \in DOMAIN file.header : file.header[j] = c]]]]

\* mutant: the predictions are also written into the first column of test_copy
SubmitCell_InPlace(c) ==
    /\ pc = c
    /\ \E p \in Predictions(test_copy) :
          /\ prediction' = p
          /\ csv' = to_csv(Submission(test, p))
          /\ submission' = read_csv(to_csv(Submission(test, p)))
          /\ test_copy' = [i \in DOMAIN test_copy |-> <<p[i]>> \o Tail(test_copy[i])]
    /\ pc' = After(c)
    /\ UNCHANGED <<train, test, train_copy, cells, earlier, libVars, snapshots,
                   titleVars, ottoVars>>

\* The submission cell (the same text in both variants).
SubmitCell(c) ==
    /\ pc = c
    /\ \E p \in Predictions(test_copy) :
          /\ prediction' = p
          /\ csv' = to_csv(Submission(test, p))
          /\ submission' = read_csv(to_csv(Submission(test, p)))
    /\ pc' = After(c)
    /\ UNCHANGED <<train, test, train_copy, test_copy, cells, earlier, libVars, snapshots,
                   titleVars, ottoVars>>

Submit1Cell == SubmitCell("Submit1")
Submit2Cell == SubmitCell("Submit2")

config_eda ==
    [key |-> "features analyzed",
     value |-> <<"Sex", "Pclass", "FamilySize", "IsAlone", "Embarked", "Fare", "Age", "Title">>]
config_1 ==
    [key |-> "selected features",
     value |-> <<"Sex", "Pclass", "Age", "Fare", "Embarked", "Fare", "IsAlone", "Title">>]
config_2 ==
    [key |-> "selected features",
     value |-> <<"Sex", "Pclass", "Age", "Fare", "Embarked", "FarePerPerson", "FamilySize", "Title">>]

\* tpot.score(X_test, y_test): the accuracy, k right out of the rows of X_test
Scores(Xm) == {<<k, Len(Xm)>> : k \in 0..Len(Xm)}
\* stats = {"accuracy": score}; no stats is {}
Stats(score) == {<<"accuracy", score>>}

\* datmo.snapshot.create(message, config, stats): the project gets one more
\* snapshot, with an id of its own
\* mutant: the new snapshot takes the place of the latest one
snapshot_create_Replace(store, message, config, stats) ==
    SubSeq(store, 1, Len(store) - 1)
        \o <<[id |-> Len(store) + 1, created_at |-> Len(store) + 1, message |-> message,
              config |-> config, stats |-> stats]>>

snapshot_create(store, message, config, stats) ==
    Append(store, [id |-> Len(store) + 1, created_at |-> Len(store) + 1,
                   message |-> message, config |-> config, stats |-> stats])

\* datmo snapshot ls, as the notebook shows its output: a line per snapshot of the
\* project, the latest first
snapshot_ls(store) == [i \in DOMAIN store |-> store[Len(store) - i + 1]]

SnapshotEDACell ==
    /\ pc = "SnapshotEDA"
    /\ snapshots' = snapshot_create(snapshots, "EDA", config_eda, {})
    /\ pc' = After("SnapshotEDA")
    /\ UNCHANGED <<train, test, train_copy, test_copy, cells, earlier, libVars, outVars,
                   titleVars, ottoVars>>

Snapshot1Cell ==
    /\ pc = "Snapshot1"
    /\ \E score \in Scores(X_test) :
          snapshots' = snapshot_create(snapshots, "auto-ml-1", config_1, Stats(score))
    /\ pc' = After("Snapshot1")
    /\ UNCHANGED <<train, test, train_copy, test_copy, cells, earlier, libVars, outVars,
                   titleVars, ottoVars>>

Snapshot2Cell ==
    /\ pc = "Snapshot2"
    /\ \E score \in Scores(X_test) :
          snapshots' = snapshot_create(snapshots, "auto-ml-2", config_2, Stats(score))
    /\ pc' = After("Snapshot2")
    /\ UNCHANGED <<train, test, train_copy, test_copy, cells, earlier, libVars, outVars,
                   titleVars, ottoVars>>

Next ==
    \/ FamilySizeCell
    \/ IsAloneCell
    \/ EmbarkedCell
    \/ FareCell
    \/ AgeCell
    \/ NameCell
    \/ TitleGroupCell
    \/ Clean1Cell
    \/ Select1Cell
    \/ Clean2Cell
    \/ Select2Cell

Spec == Init /\ [][Next]_vars

(***************************************************************************)
(* The whole notebook, every code cell in order, on the rows of the Kaggle  *)
(* files, with or without a missing fare in the last row of each table.     *)
(***************************************************************************)
RunProbes(base) == {base, [base EXCEPT !.Fare = NaN]}

InitRun ==
    /\ \E p \in RunProbes(TrainProbeBase) : train = ReadCsv(TrainColumns, TrainRows, NTrain, p)
    /\ \E p \in RunProbes(TestProbeBase) : test = ReadCsv(TestColumns, TestRows, NTest, p)
    /\ train_copy = Unset
    /\ test_copy = Unset
    /\ pc = "FamilySize"
    /\ cells = NotebookCells
    /\ NothingRun
    /\ NoEarlierRun
    /\ t_name = <<>> /\ t_title = <<>> /\ t_pc = "off"
    /\ OttoOff

NextRun ==
    \/ FamilySizeCell
    \/ IsAloneCell
    \/ EmbarkedCell
    \/ FareCell
    \/ AgeCell
    \/ NameCell
    \/ TitleGroupCell
    \/ SnapshotEDACell
    \/ Clean1Cell
    \/ Select1Cell
    \/ Fit1Cell
    \/ Submit1Cell
    \/ Snapshot1Cell
    \/ Clean2Cell
    \/ Select2Cell
    \/ Fit2Cell
    \/ Submit2Cell
    \/ Snapshot2Cell

SpecRun == InitRun /\ [][NextRun]_vars

(***************************************************************************)
(* Two runs of the notebook on the same files.  The first run goes as far  *)
(* as the matrices of a variant; then the notebook is run again from its   *)
(* first cell, which reads the same train.csv and test.csv, and the random *)
(* draws of the Age cell are made anew.  The tables have a missing age, a  *)
(* missing fare or a missing port in the last row of one of them.          *)
(***************************************************************************)
TwiceProbes(base) ==
    {base, [base EXCEPT !.Age = NaN], [base EXCEPT !.Fare = NaN],
     [base EXCEPT !.Embarked = "NaN"]}

\* the last rows of train.csv and test.csv
TwiceInputs ==
    {<<p, TestProbeBase>> : p \in TwiceProbes(TrainProbeBase)}
        \cup {<<TrainProbeBase, p>> : p \in TwiceProbes(TestProbeBase)}

InitTwice ==
    /\ \E in \in TwiceInputs :
          /\ train = ReadCsv(TrainColumns, TrainRows, NTrain, in[1])
          /\ test = ReadCsv(TestColumns, TestRows, NTest, in[2])
    /\ train_copy = Unset
    /\ test_copy = Unset
    /\ pc = "FamilySize"
    /\ cells = DataCells
    /\ NothingRun
    /\ earlier = [train |-> train, test |-> test, at |-> "none", out |-> Unset]
    /\ t_name = <<>> /\ t_title = <<>> /\ t_pc = "off"
    /\ OttoOff

\* Run the notebook again, after the matrices of the first or of the second
\* variant were made: train = pd.read_csv('./input/train.csv') and test likewise
\* read the files again; what the first run handed over is remembered.
RunAgain ==
    /\ earlier.at = "none"
    /\ pc \in {After("Select1"), After("Select2")}
    /\ earlier' = [earlier EXCEPT !.at = pc, !.out = <<train_copy, test_copy>>]
    /\ train' = earlier.train
    /\ test' = earlier.test
    /\ train_copy' = Unset
    /\ test_copy' = Unset
    /\ pc' = cells[1]
    /\ UNCHANGED <<cells, libVars, outVars, snapshots, titleVars, ottoVars>>

NextTwice ==
    \/ FamilySizeCell
    \/ IsAloneCell
    \/ EmbarkedCell
    \/ FareCell
    \/ AgeCell
    \/ NameCell
    \/ TitleGroupCell
    \/ Clean1Cell
    \/ Select1Cell
    \/ Clean2Cell
    \/ Select2Cell
    \/ RunAgain

SpecTwice == InitTwice /\ [][NextTwice]_vars

(***************************************************************************)
(* get_title, the title grouping and the title mapping as functions of one *)
(* name: every name of up to MaxNameLen characters over a small alphabet,  *)
(* and the titles of the notebook's tables.                                *)
(***************************************************************************)
NameAlphabet == {" ", ".", ",", "M", "r"}

RECURSIVE SeqsUpTo(_, _)
\* the sequences of at most n elements of S
SeqsUpTo(S, n) ==
    IF n = 0 THEN {<<>>}
    ELSE LET shorter == SeqsUpTo(S, n - 1)
         IN shorter \cup {Append(s, x) : s \in {t \in shorter : Len(t) = n - 1}, x \in S}

AllTitles ==
    RareTitles \cup {Mr, Miss, Mrs, Master, Rare, Mlle, Ms, Mme, Sir \o <<"e">>, <<"D">>}

TitleNames ==
    SeqsUpTo(NameAlphabet, MaxNameLen)
        \cup {<<"X", ",", " ">> \o t \o <<".", " ", "Y">> : t \in AllTitles}
        \cup {Braund, Cumings, Heikkinen, NoSpaceName, NoTitleName, TwoTitleName}

InitTitle ==
    /\ t_name \in TitleNames
    /\ t_title = <<>>
    /\ t_pc = "get_title"
    /\ train = Unset /\ test = Unset /\ train_copy = Unset /\ test_copy = Unset
    /\ pc = "off"
    /\ cells = <<>>
    /\ NothingRun
    /\ NoEarlierRun
    /\ OttoOff

GetTitleStep ==
    /\ t_pc = "get_title"
    /\ t_title' = get_title(t_name)
    /\ t_pc' = "group"
    /\ UNCHANGED <<t_name, titanicVars, ottoVars>>

GroupTitleStep ==
    /\ t_pc = "group"
    /\ t_title' = group_title(t_title)
    /\ t_pc' = "map"
    /\ UNCHANGED <<t_name, titanicVars, ottoVars>>

MapTitleStep ==
    /\ t_pc = "map"
    /\ t_title' = MapTitle(t_title)
    /\ t_pc' = "done"
    /\ UNCHANGED <<t_name, titanicVars, ottoVars>>

NextTitle == GetTitleStep \/ GroupTitleStep \/ MapTitleStep

SpecTitle == InitTitle /\ [][NextTitle]_vars

(***************************************************************************)
(* The Otto notebook: classToIntegers on one class string.                 *)
(*   y <- ... %>% gsub('Class_','',.) %>% {as.integer(.) - 1}              *)
(* NA is NaN here.  The strings are built from the characters of "Class_", *)
(* digits, "-", ".", a blank and the letter z: as.integer's exponents,      *)
(* hexadecimal numbers and its spellings of NA, Inf and NaN need letters   *)
(* that are not among them.                                                *)
(***************************************************************************)
Class_ == <<"C","l","a","s","s","_">>

DigitChars == <<"0", "1", "2", "3", "4", "5", "6", "7", "8", "9">>
Digits == Range(DigitChars)
DigitVal(c) == (CHOOSE i \in DOMAIN DigitChars : DigitChars[i] = c) - 1

\* mutant: sub instead of gsub, only the first occurrence is deleted
RECURSIVE Gsub_First(_)
Gsub_First(s) ==
    IF Len(s) < Len(Class_) THEN s
    ELSE IF SubSeq(s, 1, Len(Class_)) = Class_ THEN SubSeq(s, Len(Class_) + 1, Len(s))
    ELSE <<Head(s)>> \o Gsub_First(Tail(s))

\* gsub('Class_', '', s): every occurrence found in one scan from the left is
\* deleted; what the deletions bring together is not looked at again
RECURSIVE Gsub(_)
Gsub(s) ==
    IF Len(s) < Len(Class_) THEN s
    ELSE IF SubSeq(s, 1, Len(Class_)) = Class_ THEN Gsub(SubSeq(s, Len(Class_) + 1, Len(s)))
    ELSE <<Head(s)>> \o Gsub(Tail(s))

\* the number of characters of s from position p on that are in S, up to the
\* first that is not
RECURSIVE RunLen(_, _, _)
RunLen(s, p, S) == IF p <= Len(s) /\ s[p] \in S THEN 1 + RunLen(s, p + 1, S) ELSE 0

RECURSIVE DigitsValue(_)
DigitsValue(d) ==
    IF d = <<>> THEN 0 ELSE 10 * DigitsValue(SubSeq(d, 1, Len(d) - 1)) + DigitVal(d[Len(d)])

\* .Machine$integer.max, as digits: as.integer gives NA from 2147483648 on
IntMaxDigits == <<"2","1","4","7","4","8","3","6","4","7">>

\* d (digits without leading zeros) is a number of at most integer.max
FitsInteger(d) ==
    \/ Len(d) < Len(IntMaxDigits)
    \/ /\ Len(d) = Len(IntMaxDigits)
       /\ \/ d = IntMaxDigits
          \/ \E i \in DOMAIN d :
                /\ SubSeq(d, 1, i - 1) = SubSeq(IntMaxDigits, 1, i - 1)
                /\ DigitVal(d[i]) < DigitVal(IntMaxDigits[i])

\* as.integer(s) of a character string: blanks, a sign, digits, a fraction
\* (dropped), blanks; NA for anything else and outside the integer range
as_integer(s) ==
    LET p0 == RunLen(s, 1, {" "})
        signed == p0 < Len(s) /\ s[p0 + 1] \in {"-", "+"}
        p1 == IF signed THEN p0 + 1 ELSE p0
        nint == RunLen(s, p1 + 1, Digits)
        p2 == p1 + nint
        dotted == p2 < Len(s) /\ s[p2 + 1] = "."
        nfrac == IF dotted THEN RunLen(s, p2 + 2, Digits) ELSE 0
        p3 == IF dotted THEN p2 + 1 + nfrac ELSE p2
        zeros == RunLen(s, p1 + 1, {"0"})
        d == SubSeq(s, p1 + 1 + zeros, p2)
    IN IF nint + nfrac = 0 THEN NaN
       ELSE IF p3 + RunLen(s, p3 + 1, {" "}) # Len(s) THEN NaN
       ELSE IF ~FitsInteger(d) THEN NaN
       ELSE IF signed /\ s[p0 + 1] = "-" THEN 0 - DigitsValue(d)
       ELSE DigitsValue(d)

\* mutant: the labels are left one-based
MinusOne_Kept(x) == x

\* NA - 1 is NA
MinusOne(x) == IF IsNaN(x) THEN NaN ELSE x - 1

classToIntegers(s) == MinusOne(as_integer(Gsub(s)))

OttoTokens ==
    {Class_, <<"C","l","a">>, <<"s","s","_">>, <<"0">>, <<"1">>, <<"9">>, <<"-">>, <<" ">>,
     <<"z">>, IntMaxDigits, <<"2","1","4","7","4","8","3","6","4","8">>}


RECURSIVE Flatten(_)
Flatten(ts) == IF ts = <<>> THEN <<>> ELSE Head(ts) \o Flatten(Tail(ts))

ClassStrings == {Flatten(ts) : ts \in SeqsUpTo(OttoTokens, MaxTokens)}

InitOtto ==
    /\ o_class \in ClassStrings
    /\ o_y = NaN
    /\ o_pc = "classToIntegers"
    /\ OttoNothingRun
    /\ train = Unset /\ test = Unset /\ train_copy = Unset /\ test_copy = Unset
    /\ pc = "off"
    /\ cells = <<>>
    /\ NothingRun
    /\ NoEarlierRun
    /\ t_name = <<>> /\ t_title = <<>> /\ t_pc = "off"

ClassToIntegersStep ==
    /\ o_pc = "classToIntegers"
    /\ o_y' = classToIntegers(o_class)
    /\ o_pc' = "done"
    /\ UNCHANGED <<o_class, ottoRunVars, titanicVars, titleVars>>

NextOtto == ClassToIntegersStep

SpecOtto == InitOtto /\ [][NextOtto]_vars

(***************************************************************************)
(* The Otto notebook, chunk by chunk, on small files: the chunks that make *)
(* the labels, the matrices and the parameter lists and that train the two *)
(* models.  xgboost, xgb.cv and caret's train are collaborators: a model is *)
(* what it was called with, and the grid search returns any row of its     *)
(* grid.  The chunks that plot and that call datmo are left out.            *)
(* Hyperparameters are counted in 1/ParamUnit.                             *)
(***************************************************************************)
NOtto == 2         \* rows of the Otto train.csv and test.csv

ParamUnit == 100 * 100

OttoTrainColumns == <<"id", "feat_1", "feat_2", "target">>
OttoTestColumns == <<"id", "feat_1", "feat_2">>

\* the class strings of the rows of train.csv
OttoClasses ==
    {Class_ \o <<"1">>, Class_ \o <<"2">>, Class_ \o <<"9">>, Class_ \o IntMaxDigits,
     Class_ \o <<"2","1","4","7","4","8","3","6","4","8">>}

\* fread('input/train.csv'): row i with the features i and 0 and the class cl[i]
OttoTrainFile(cl) ==
    [cols |-> OttoTrainColumns,
     rows |-> [i \in 1..NOtto |-> [id |-> i, feat_1 |-> i, feat_2 |-> 0, target |-> cl[i]]]]
OttoTestFile ==
    [cols |-> OttoTestColumns,
     rows |-> [i \in 1..NOtto |-> [id |-> i, feat_1 |-> 0, feat_2 |-> i]]]

InitOttoRun ==
    /\ \E cl \in [1..NOtto -> OttoClasses] : o_train = OttoTrainFile(cl)
    /\ o_test = OttoTestFile
    /\ o_pc = "clean"
    /\ o_class = <<>> /\ o_y = Unset
    /\ nameLastCol = "" /\ trainMatrix = Unset /\ testMatrix = Unset
    /\ numberOfClasses = NaN /\ param = Unset /\ bst = Unset
    /\ xgb_train_1 = Unset /\ xgb_optimal_params = Unset /\ bst_optimal = Unset
    /\ train = Unset /\ test = Unset /\ train_copy = Unset /\ test_copy = Unset
    /\ pc = "off"
    /\ cells = <<>>
    /\ NothingRun
    /\ NoEarlierRun
    /\ t_name = <<>> /\ t_title = <<>> /\ t_pc = "off"

\* mutant: the column is left in the table
DeleteColumn_Kept(dt, name) == dt

\* dt[, name := NULL]
DeleteColumn(dt, name) == DropCols(dt, {name})

\* train[, id := NULL]; test[, id := NULL]
CleanChunk ==
    /\ o_pc = "clean"
    /\ o_train' = DeleteColumn(o_train, "id")
    /\ o_test' = DeleteColumn(o_test, "id")
    /\ o_pc' = "searchLabel"
    /\ UNCHANGED <<o_class, o_y, nameLastCol, trainMatrix, testMatrix, numberOfClasses,
                   param, bst, xgb_train_1, xgb_optimal_params, bst_optimal,
                   titanicVars, titleVars>>

\* nameLastCol <- names(train)[ncol(train)]
SearchLabelChunk ==
    /\ o_pc = "searchLabel"
    /\ nameLastCol' = o_train.cols[Len(o_train.cols)]
    /\ o_pc' = "classToIntegers"
    /\ UNCHANGED <<o_class, o_y, o_train, o_test, trainMatrix, testMatrix,
                   numberOfClasses, param, bst, xgb_train_1, xgb_optimal_params,
                   bst_optimal, titanicVars, titleVars>>

\* y <- train[, nameLastCol, with = F][[1]] %>% gsub('Class_','',.) %>%
\*      {as.integer(.) - 1}, element by element
ClassToIntegersChunk ==
    /\ o_pc = "classToIntegers"
    /\ o_train # Unset
    /\ o_y' = [i \in DOMAIN o_train.rows |-> classToIntegers(o_train.rows[i][nameLastCol])]
    /\ o_pc' = "deleteCols"
    /\ UNCHANGED <<o_class, o_train, o_test, nameLastCol, trainMatrix, testMatrix,
                   numberOfClasses, param, bst, xgb_train_1, xgb_optimal_params,
                   bst_optimal, titanicVars, titleVars>>

\* train[, nameLastCol := NULL, with = F]
DeleteColsChunk ==
    /\ o_pc = "deleteCols"
    /\ o_train' = DeleteColumn(o_train, nameLastCol)
    /\ o_pc' = "convertToNumericMatrix"
    /\ UNCHANGED <<o_class, o_y, o_test, nameLastCol, trainMatrix, testMatrix,
                   numberOfClasses, param, bst, xgb_train_1, xgb_optimal_params,
                   bst_optimal, titanicVars, titleVars>>

\* as.numeric of one cell: fread has read target as character and the other
\* columns as integer; a character that is no number gives NA
as_numeric(c, v) == IF c = "target" THEN as_integer(v) ELSE v

\* dt[, lapply(.SD, as.numeric)] %>% as.matrix
NumericMatrix(dt) ==
    [i \in DOMAIN dt.rows |->
        [j \in DOMAIN dt.cols |-> as_numeric(dt.cols[j], dt.rows[i][dt.cols[j]])]]

ConvertToNumericMatrixChunk ==
    /\ o_pc = "convertToNumericMatrix"
    /\ trainMatrix' = NumericMatrix(o_train)
    /\ testMatrix' = NumericMatrix(o_test)
    /\ o_pc' = "crossValidation"
    /\ UNCHANGED <<o_class, o_y, o_train, o_test, nameLastCol, numberOfClasses, param,
                   bst, xgb_train_1, xgb_optimal_params, bst_optimal,
                   titanicVars, titleVars>>

\* max(y): NA when a label is NA
MaxOf(v) == IF \E i \in DOMAIN v : IsNaN(v[i]) THEN NaN ELSE SetMax(Range(v))

\* mutant: the number of classes without the + 1
NumberOfClasses_Max(v) == MaxOf(v)

\* numberOfClasses <- max(y) + 1
NumberOfClasses(v) == IF IsNaN(MaxOf(v)) THEN NaN ELSE MaxOf(v) + 1

\* param <- list("objective" = ..., "eval_metric" = ..., "num_class" = ...)
ParamList(num_class) ==
    [objective |-> "multi:softprob", eval_metric |-> "mlogloss", num_class |-> num_class]

\* what xgboost(param = params, data = data, label = label, nrounds = nrounds)
\* was called with
xgboost(params, data, label, nrounds) ==
    [params |-> params, data |-> data, label |-> label, nrounds |-> nrounds]

\* The chunks crossValidation and modelTraining.  xgb.cv only reports.
CrossValidationChunk ==
    /\ o_pc = "crossValidation"
    /\ numberOfClasses' = NumberOfClasses(o_y)
    /\ param' = ParamList(NumberOfClasses(o_y))
    /\ o_pc' = "modelTraining"
    /\ UNCHANGED <<o_class, o_y, o_train, o_test, nameLastCol, trainMatrix, testMatrix,
                   bst, xgb_train_1, xgb_optimal_params, bst_optimal,
                   titanicVars, titleVars>>

ModelTrainingChunk ==
    /\ o_pc = "modelTraining"
    /\ bst' = xgboost(param, trainMatrix, o_y, 50)
    /\ o_pc' = "ControlParams"
    /\ UNCHANGED <<o_class, o_y, o_train, o_test, nameLastCol, trainMatrix, testMatrix,
                   numberOfClasses, param, xgb_train_1, xgb_optimal_params, bst_optimal,
                   titanicVars, titleVars>>

\* xgb_grid_1 = expand.grid(...): every combination of the listed values
xgb_grid_1 ==
    [nrounds : {50 * ParamUnit},
     eta : {100, 10, 1},
     max_depth : {k * ParamUnit : k \in {2, 4, 6, 8, 10}},
     gamma : {1 * ParamUnit},
     colsample_bytree : {1 * ParamUnit},
     min_child_weight : {7500, 1 * ParamUnit, 12500},
     subsample : {5000, 7500, 1 * ParamUnit}]

\* The chunk Control Params: numberOfClasses and param are made again.
ControlParamsChunk ==
    /\ o_pc = "ControlParams"
    /\ numberOfClasses' = NumberOfClasses(o_y)
    /\ param' = ParamList(NumberOfClasses(o_y))
    /\ o_pc' = "trainModels"
    /\ UNCHANGED <<o_class, o_y, o_train, o_test, nameLastCol, trainMatrix, testMatrix,
                   bst, xgb_train_1, xgb_optimal_params, bst_optimal,
                   titanicVars, titleVars>>

\* xgb_train_1 = train(x = trainMatrix, y = y, tuneGrid = xgb_grid_1, ...): the
\* best combination is a row of the grid
TrainModelsChunk ==
    /\ o_pc = "trainModels"
    /\ \E best \in xgb_grid_1 :
          xgb_train_1' = [x |-> trainMatrix, y |-> o_y, bestTune |-> best]
    /\ o_pc' = "optimalParams"
    /\ UNCHANGED <<o_class, o_y, o_train, o_test, nameLastCol, trainMatrix, testMatrix,
                   numberOfClasses, param, bst, xgb_optimal_params, bst_optimal,
                   titanicVars, titleVars>>

\* mutant: a max_depth of 6
OptimalParamsList_Depth6(num_class) ==
    [nrounds |-> 50 * ParamUnit, eta |-> 1000, max_depth |-> 6 * ParamUnit,
     gamma |-> 1 * ParamUnit, colsample_bytree |-> 1 * ParamUnit,
     min_child_weight |-> 7500, subsample |-> 1 * ParamUnit,
     objective |-> "multi:softprob", eval_metric |-> "mlogloss", num_class |-> num_class]

\* xgb_optimal_params = list("nrounds" = 50, "eta" = .1, ...): written out in
\* the chunk, not read from xgb_train_1
OptimalParamsList(num_class) ==
    [nrounds |-> 50 * ParamUnit, eta |-> 1000, max_depth |-> 10 * ParamUnit,
     gamma |-> 1 * ParamUnit, colsample_bytree |-> 1 * ParamUnit,
     min_child_weight |-> 7500, subsample |-> 1 * ParamUnit,
     objective |-> "multi:softprob", eval_metric |-> "mlogloss", num_class |-> num_class]

OptimalParamsChunk ==
    /\ o_pc = "optimalParams"
    /\ xgb_optimal_params' = OptimalParamsList(numberOfClasses)
    /\ o_pc' = "modelTraining2"
    /\ UNCHANGED <<o_class, o_y, o_train, o_test, nameLastCol, trainMatrix, testMatrix,
                   numberOfClasses, param, bst, xgb_train_1, bst_optimal,
                   titanicVars, titleVars>>

\* bst_optimal = xgboost(param = xgb_optimal_params, data = trainMatrix,
\*                       label = y, nrounds = nround)
ModelTraining2Chunk ==
    /\ o_pc = "modelTraining2"
    /\ bst_optimal' = xgboost(xgb_optimal_params, trainMatrix, o_y, 50)
    /\ o_pc' = "done"
    /\ UNCHANGED <<o_class, o_y, o_train, o_test, nameLastCol, trainMatrix, testMatrix,
                   numberOfClasses, param, bst, xgb_train_1, xgb_optimal_params,
                   titanicVars, titleVars>>

NextOttoRun ==
    \/ CleanChunk
    \/ SearchLabelChunk
    \/ ClassToIntegersChunk
    \/ DeleteColsChunk
    \/ ConvertToNumericMatrixChunk
    \/ CrossValidationChunk
    \/ ModelTrainingChunk
    \/ ControlParamsChunk
    \/ TrainModelsChunk
    \/ OptimalParamsChunk
    \/ ModelTraining2Chunk

SpecOttoRun == InitOttoRun /\ [][NextOttoRun]_vars

(***************************************************************************)
(* Properties of the Titanic notebook.                                     *)
(***************************************************************************)
\* the cells after which a column exists in train and test
AfterFamilySize == pc \notin {"off", "FamilySize"}
AfterIsAlone == AfterFamilySize /\ pc # "IsAlone"
AfterTitleGroup == pc \in {"Clean1", "Select1", "Clean2", "Select2", "done"}
\* a cleaning cell has run to its end and its copies are still DataFrames
Cleaned1 == pc = "Select1"
Cleaned2 == pc = "Select2"

Rows(df) == {df.rows[i] : i \in DOMAIN df.rows}

\* C1: for every record of the train and of the test dataset, FamilySize equals
\* SibSp + Parch + 1.
C1_FamilySize ==
    AfterFamilySize =>
        \A r \in Rows(train) \cup Rows(test) : r.FamilySize = r.SibSp + r.Parch + 1

\* C1 witness: the cell has run on probe rows with a sibling and a parent (train)
\* and with neither (test).
C1_Witness ==
    /\ pc = "IsAlone"
    /\ train.rows[NTrain].SibSp = 1 /\ train.rows[NTrain].Parch = 1
    /\ train.rows[NTrain].FamilySize = 3
    /\ test.rows[NTest].SibSp = 0 /\ test.rows[NTest].Parch = 0
    /\ test.rows[NTest].FamilySize = 1

\* C2: for every record of both datasets, IsAlone is 1 if and only if FamilySize
\* equals 1, and is 0 otherwise.
C2_IsAlone ==
    AfterIsAlone =>
        \A r \in Rows(train) \cup Rows(test) :
            /\ r.IsAlone \in {0, 1}
            /\ r.IsAlone = 1 <=> r.FamilySize = 1

\* C2 witness: a record that is alone and a record without sibling or spouse that
\* is not alone, both past the cell.
C2_Witness ==
    /\ pc = "Embarked"
    /\ train.rows[NTrain].FamilySize = 1 /\ train.rows[NTrain].IsAlone = 1
    /\ test.rows[NTest].SibSp = 0 /\ test.rows[NTest].FamilySize = 2
    /\ test.rows[NTest].IsAlone = 0

\* the code the claim gives a fare f (in 1/FareUnit): 7.91, 14.454 and 31 are
\* upper-closed edges
FareCodeClaimed(f) ==
    IF f <= FareEdge1 THEN 0
    ELSE IF f <= FareEdge2 THEN 1
    ELSE IF f <= FareEdge3 THEN 2
    ELSE 3

\* C3: fare bucketing uses upper-closed edges, the same for train and test: a fare
\* f gets code 0 if f <= 7.91, 1 if 7.91 < f <= 14.454, 2 if 14.454 < f <= 31, 3
\* if f > 31; every non-missing fare gets exactly one code.
C3_FareBuckets ==
    Cleaned1 =>
        /\ \A i \in DOMAIN train.rows :
              ~IsNaN(train.rows[i].Fare) =>
                  train_copy.rows[i].Fare = FareCodeClaimed(train.rows[i].Fare)
        /\ \A i \in DOMAIN test.rows :
              ~IsNaN(test.rows[i].Fare) =>
                  test_copy.rows[i].Fare = FareCodeClaimed(test.rows[i].Fare)

\* C3 witness: a train fare of exactly 7.91 coded 0 and a test fare of exactly
\* 14.454 coded 1.
C3_Witness ==
    /\ Cleaned1
    /\ train.rows[NTrain].Fare = FareEdge1 /\ train_copy.rows[NTrain].Fare = 0
    /\ test.rows[NTest].Fare = FareEdge2 /\ test_copy.rows[NTest].Fare = 1

\* the code the claim gives an age of a whole years
AgeCodeClaimed(a) ==
    IF a <= AgeEdge1 THEN 0
    ELSE IF a <= AgeEdge2 THEN 1
    ELSE IF a <= AgeEdge3 THEN 2
    ELSE IF a <= AgeEdge4 THEN 3
    ELSE 4

\* C4: age bucketing uses the fixed upper-closed edges 16, 32, 48, 64: an age a
\* (the Age column as the cleaning cell finds it) gets code 0 if a <= 16, 1 if
\* 16 < a <= 32, 2 if 32 < a <= 48, 3 if 48 < a <= 64, 4 if a > 64, in both
\* cleaning variants and for both datasets.
C4_AgeBuckets ==
    (Cleaned1 \/ Cleaned2) =>
        /\ \A i \in DOMAIN train.rows :
              train_copy.rows[i].Age = AgeCodeClaimed(train.rows[i].Age)
        /\ \A i \in DOMAIN test.rows :
              test_copy.rows[i].Age = AgeCodeClaimed(test.rows[i].Age)

\* C4 witness: in the second variant, a train age of exactly 32 coded 1 and a
\* test age above 64 coded 4.
C4_Witness ==
    /\ Cleaned2
    /\ train.rows[NTrain].Age = AgeEdge2 /\ train_copy.rows[NTrain].Age = 1
    /\ test.rows[NTest].Age > AgeEdge4 /\ test_copy.rows[NTest].Age = 4

\* the titles the claim groups
C6_RareList == {Lady, Countess, Capt, Col, Don, Dr, Major, Rev, Sir, Jonkheer, Dona}

\* C6: title normalisation maps each of Lady, Countess, Capt, Col, Don, Dr, Major,
\* Rev, Sir, Jonkheer, Dona to "Rare", Mlle and Ms to "Miss", Mme to "Mrs", and
\* leaves every other title unchanged, in both datasets.
C6_TitleGrouping ==
    AfterTitleGroup =>
        \A r \in Rows(train) \cup Rows(test) :
            LET raw == get_title(r.Name)
            IN /\ raw \in C6_RareList => r.Title = Rare
               /\ raw \in {Mlle, Ms} => r.Title = Miss
               /\ raw = Mme => r.Title = Mrs
               /\ raw \notin C6_RareList \cup {Mlle, Ms, Mme} => r.Title = raw

\* C6 witness: a Dona of the train set grouped as Rare and a Ms of the test set as
\* Miss, next to a Mr left as it was.
C6_Witness ==
    /\ pc = "Clean1"
    /\ get_title(train.rows[NTrain].Name) = Dona /\ train.rows[NTrain].Title = Rare
    /\ get_title(test.rows[NTest].Name) = Ms /\ test.rows[NTest].Title = Miss
    /\ train.rows[1].Title = Mr

\* the code the claim gives a title
TitleCodeClaimed(t) ==
    IF t = Mr THEN 1
    ELSE IF t = Miss THEN 2
    ELSE IF t = Mrs THEN 3
    ELSE IF t = Master THEN 4
    ELSE IF t = Rare THEN 5
    ELSE 0

\* C7: title encoding maps the five canonical titles to Mr 1, Miss 2, Mrs 3,
\* Master 4, Rare 5 and every other title, the empty string of a name without
\* title included, to the unknown code 0, in both variants.
C7_TitleCodes ==
    (Cleaned1 \/ Cleaned2) =>
        /\ \A i \in DOMAIN train.rows :
              train_copy.rows[i].Title = TitleCodeClaimed(train.rows[i].Title)
        /\ \A i \in DOMAIN test.rows :
              test_copy.rows[i].Title = TitleCodeClaimed(test.rows[i].Title)

\* C7 witness: in the first variant a name without title, whose Title is the
\* empty string, coded 0, next to a Rare coded 5.
C7_Witness ==
    /\ Cleaned1
    /\ train.rows[NTrain].Name = NoTitleName /\ train.rows[NTrain].Title = <<>>
    /\ train_copy.rows[NTrain].Title = 0
    /\ test.rows[NTest].Title = Rare /\ test_copy.rows[NTest].Title = 5

\* decoding: the category of a table that has the code
Decode(mapping, code) == CHOOSE k \in DOMAIN mapping : mapping[k] = code

\* C8: the encodings are the fixed tables sex {female: 0, male: 1}, embarked
\* {S: 0, C: 1, Q: 2}, title {Mr: 1, Miss: 2, Mrs: 3, Master: 4, Rare: 5}, and
\* decoding the code produced for a category of a table recovers the category.
C8_RoundTrip ==
    Cleaned1 =>
        \A df \in {<<train, train_copy>>, <<test, test_copy>>} :
            \A i \in DOMAIN df[1].rows :
                LET r == df[1].rows[i]
                    c == df[2].rows[i]
                IN /\ r.Sex \in {"female", "male"} =>
                        /\ c.Sex = (IF r.Sex = "female" THEN 0 ELSE 1)
                        /\ Decode(sex_mapping, c.Sex) = r.Sex
                   /\ r.Embarked \in {"S", "C", "Q"} =>
                        /\ c.Embarked = (IF r.Embarked = "S" THEN 0
                                         ELSE IF r.Embarked = "C" THEN 1 ELSE 2)
                        /\ Decode(embarked_mapping, c.Embarked) = r.Embarked
                   /\ r.Title \in {Mr, Miss, Mrs, Master, Rare} =>
                        /\ c.Title = TitleCodeClaimed(r.Title)
                        /\ Decode(title_mapping, c.Title) = r.Title

\* C8 witness: a Q of the train set coded 2 and decoded to Q, a female of the test
\* set coded 0 and decoded to female.
C8_Witness ==
    /\ Cleaned1
    /\ train.rows[NTrain].Embarked = "Q" /\ train_copy.rows[NTrain].Embarked = 2
    /\ Decode(embarked_mapping, train_copy.rows[NTrain].Embarked) = "Q"
    /\ test.rows[NTest].Sex = "female" /\ test_copy.rows[NTest].Sex = 0
    /\ Decode(sex_mapping, test_copy.rows[NTest].Sex) = "female"

\* the number of rows of col that hold v
CountOf(col, v) == Cardinality({i \in DOMAIN col : col[i] = v})

\* the ports of col that no other port of col is more frequent than
MostFrequent(col) ==
    LET seen == Range(col) \ {"NaN"}
    IN {v \in seen : \A w \in seen : CountOf(col, v) >= CountOf(col, w)}

\* C11: every record of train and of test whose embarkation port is missing
\* receives the most frequent port observed in the training set, whatever that
\* port is for the given training data (stated of the step of the Embarked cell;
\* with several most frequent ports any of them is accepted).
C11_AsStated ==
    [][pc = "Embarked" =>
          LET m == MostFrequent(Column(train, "Embarked"))
          IN /\ \A i \in DOMAIN train.rows :
                   train.rows[i].Embarked = "NaN" => train'.rows[i].Embarked \in m
             /\ \A i \in DOMAIN test.rows :
                   test.rows[i].Embarked = "NaN" => test'.rows[i].Embarked \in m]_pc

\* the median of the values present in col, found by counting the values below
\* and above: the middle value, or the mean of the two middle values
MedianByRank(col) ==
    LET P == {i \in DOMAIN col : ~IsNaN(col[i])}
        n == Cardinality(P)
        Below(v) == Cardinality({i \in P : col[i] < v})
        Above(v) == Cardinality({i \in P : col[i] > v})
        lo == CHOOSE v \in {col[i] : i \in P} :
                  Below(v) <= (n - 1) \div 2 /\ Above(v) <= n \div 2
        hi == CHOOSE v \in {col[i] : i \in P} :
                  Below(v) <= n \div 2 /\ Above(v) <= (n - 1) \div 2
    IN (lo + hi) \div 2

\* C12: every missing fare, in train and in test, is filled with the median of
\* the training set's fares, and the value used for test, computed after the
\* training fares were filled, is the median of the original non-missing training
\* fares; the fares that were present stay (stated of the step of the Fare cell).
C12_MedianFare ==
    [][pc = "Fare" =>
          LET m == MedianByRank(Column(train, "Fare"))
          IN /\ \A i \in DOMAIN train.rows :
                   train'.rows[i].Fare =
                       IF IsNaN(train.rows[i].Fare) THEN m ELSE train.rows[i].Fare
             /\ \A i \in DOMAIN test.rows :
                   test'.rows[i].Fare =
                       IF IsNaN(test.rows[i].Fare) THEN m ELSE test.rows[i].Fare
             /\ MedianByRank(Column(train', "Fare")) = m]_pc

\* the median of the fares of the rows of train.csv before the probe row
ReferenceMedian == MedianByRank([i \in 1..(NTrain - 1) |-> TrainRows[i].Fare])

\* C12 witness: the fare of the last record was missing in train and in test, and
\* both hold the median of the other training fares now (no fare read from a
\* file has this value).
C12_Witness ==
    /\ pc = After("Fare")
    /\ ReferenceMedian \notin FareProbes \cup {TrainProbeBase.Fare, TestProbeBase.Fare}
    /\ train.rows[NTrain].Fare = ReferenceMedian
    /\ test.rows[NTest].Fare = ReferenceMedian

\* k whole years lie in [mean - std, mean + std] of the ages present in col (in
\* 1/AgeUnit years; std is the sample standard deviation): with n ages of sum s
\* and sum of squares q, (k - mean)^2 <= std^2 is
\* (n - 1) * (AgeUnit * n * k - s)^2 <= n * (n * q - s^2)
WithinOneStd(col, k) ==
    LET P == {i \in DOMAIN col : ~IsNaN(col[i])}
        n == Cardinality(P)
        s == SumSeq([i \in DOMAIN col |-> IF i \in P THEN col[i] ELSE 0])
        q == SumSeq([i \in DOMAIN col |-> IF i \in P THEN col[i] * col[i] ELSE 0])
        d == AgeUnit * n * k - s
    IN n >= 2 /\ (n - 1) * d * d <= n * (n * q - s * s)

\* C13: every age that was missing in a dataset is replaced by a value in the
\* closed interval [mean - stddev, mean + stddev] of the non-missing ages of that
\* same dataset, and an age that was present is only converted to an integer
\* (stated of the step of the Age cell that runs to its end).
C13_AsStated ==
    [][(pc = "Age" /\ pc' = After("Age")) =>
          /\ \A i \in DOMAIN train.rows :
                IF IsNaN(train.rows[i].Age)
                THEN WithinOneStd(Column(train, "Age"), train'.rows[i].Age)
                ELSE train'.rows[i].Age = train.rows[i].Age \div AgeUnit
          /\ \A i \in DOMAIN test.rows :
                IF IsNaN(test.rows[i].Age)
                THEN WithinOneStd(Column(test, "Age"), test'.rows[i].Age)
                ELSE test'.rows[i].Age = test.rows[i].Age \div AgeUnit]_pc

\* the matrices of a variant are made and the next cell hands them to TPOT
HandOff1 == pc = After("Select1")
HandOff2 == pc = After("Select2")

\* C14: no step of the pipeline removes or adds a record.  train and test keep
\* the record counts read from the CSV files through every cell, the copies have
\* them while they are DataFrames, and the matrices at hand-off have one row per
\* record, in the records' order (each row carries its record's Pclass, the
\* train rows also its Survived); the matrices have fewer columns than the tables.
C14_NoRowDropped ==
    /\ pc # "off" => Len(train.rows) = NTrain /\ Len(test.rows) = NTest
    /\ (Cleaned1 \/ Cleaned2) =>
          Len(train_copy.rows) = NTrain /\ Len(test_copy.rows) = NTest
    /\ (HandOff1 \/ HandOff2) =>
          /\ Len(train_copy) = NTrain /\ Len(test_copy) = NTest
          /\ \A i \in 1..NTrain :
                /\ train_copy[i][1] = train.rows[i].Survived
                /\ train_copy[i][2] = train.rows[i].Pclass
                /\ Len(train_copy[i]) < Len(train.cols)
          /\ \A i \in 1..NTest :
                /\ test_copy[i][1] = test.rows[i].Pclass
                /\ Len(test_copy[i]) < Len(test.cols)

\* C14 witness: the second variant has reached hand-off with every record, the
\* last train record among them, whose fare was missing in the file.
C14_Witness ==
    /\ HandOff2
    /\ Len(train_copy) = NTrain /\ Len(test_copy) = NTest
    /\ train.rows[NTrain].Fare = ReferenceMedian
    /\ train_copy[NTrain][1] = TrainProbeBase.Survived

\* the cell of a matrix of the first variant is missing
\* (every cell is a number there)
NoCellMissing1(m) == \A i \in DOMAIN m : \A j \in DOMAIN m[i] : ~IsNaN(m[i][j])

\* the same for the second variant, whose last column is FarePerPerson, a
\* quotient: it is missing when its fare is, and undefined without persons
NoCellMissing2(m) ==
    \A i \in DOMAIN m :
        LET w == Len(m[i])
        IN /\ \A j \in 1..(w - 1) : ~IsNaN(m[i][j])
           /\ ~IsNaN(m[i][w][1])
           /\ m[i][w][2] > 0

\* C15: when the train and test matrices are handed to the model-fitting library,
\* in either variant, no cell is missing: each of the 8 retained train columns and
\* 7 retained test columns has a value for every record (the inputs have missing
\* ages, fares and ports).
C15_NoMissingCell ==
    /\ HandOff1 =>
          /\ NoCellMissing1(train_copy) /\ NoCellMissing1(test_copy)
          /\ \A i \in DOMAIN train_copy : Len(train_copy[i]) = 8
          /\ \A i \in DOMAIN test_copy : Len(test_copy[i]) = 7
    /\ HandOff2 =>
          /\ NoCellMissing2(train_copy) /\ NoCellMissing2(test_copy)
          /\ \A i \in DOMAIN train_copy : Len(train_copy[i]) = 8
          /\ \A i \in DOMAIN test_copy : Len(test_copy[i]) = 7

\* C15 witness: the first variant at hand-off, the fare of the last test record
\* was missing in the file and its cell holds the code of the median fare.
C15_Witness ==
    /\ HandOff1
    /\ test.rows[NTest].Fare = ReferenceMedian
    /\ test_copy[NTest][4] = FareCodeClaimed(ReferenceMedian)

\* the columns the claim has each variant retain, in the tables' order (test has
\* no Survived)
Retained1 == <<"Survived", "Pclass", "Sex", "Age", "Fare", "Embarked", "IsAlone", "Title">>
Retained2 ==
    <<"Survived", "Pclass", "Sex", "Age", "Embarked", "FamilySize", "Title", "FarePerPerson">>
\* the columns the claim has both variants, the first and the second drop
DroppedByBoth == {"PassengerId", "Name", "Ticket", "Cabin"}
DroppedBy1 == {"FamilySize"}
DroppedBy2 == {"Fare", "IsAlone"}

\* the matrix of the columns names of df
Picked(df, names) ==
    [i \in DOMAIN df.rows |-> [j \in DOMAIN names |-> df.rows[i][names[j]]]]

\* C16: column selection drops identifier, name, ticket and cabin in both
\* variants, family size in the first, raw fare and is-alone in the second; what
\* a variant retains is a fixed ordered list of columns, the same on every run,
\* with none of the dropped columns (stated of the steps of the two selection
\* cells: the matrix made is the retained columns of the cleaned DataFrame).
C16_ColumnSelection ==
    [][/\ pc = "Select1" =>
             /\ train_copy' = Picked(train_copy, Retained1)
             /\ test_copy' = Picked(test_copy, Tail(Retained1))
             /\ (DroppedByBoth \cup DroppedBy1) \subseteq Range(train_copy.cols)
             /\ Range(Retained1) \cap (DroppedByBoth \cup DroppedBy1) = {}
       /\ pc = "Select2" =>
             /\ train_copy' = Picked(train_copy, Retained2)
             /\ test_copy' = Picked(test_copy, Tail(Retained2))
             /\ (DroppedByBoth \cup DroppedBy2) \subseteq Range(train_copy.cols)
             /\ Range(Retained2) \cap (DroppedByBoth \cup DroppedBy2) = {}]_pc

\* C16 witness: the second selection has run on a record with a sibling and a
\* parent: the matrix has FamilySize (3) in its sixth column and 8 columns.
C16_Witness ==
    /\ HandOff2
    /\ train.rows[NTrain].FamilySize = 3
    /\ train_copy[NTrain][6] = 3
    /\ Len(train_copy[NTrain]) = 8 /\ Len(test_copy[NTest]) = 7

\* the Sex and (filled) Embarked values of a record are keys of their tables
InTables(r) == r.Sex \in {"female", "male"} /\ r.Embarked \in {"S", "C", "Q"}

\* the cells up to the first cleaning cell
BeforeCleaning ==
    {"FamilySize", "IsAlone", "Embarked", "Fare", "Age", "Name", "TitleGroup", "Clean1"}

\* C20: a sex or an embarkation port outside its mapping table after the fill
\* rules stops the cleaning step with an error.  With such a value in train or in
\* test the notebook gets no further than the first cleaning cell, which ends in
\* the error; at hand-off every record's sex and port are keys of the tables and
\* the matrices hold their codes.
C20_OutOfTableStops ==
    /\ (pc # "off" /\ \E r \in Rows(train) \cup Rows(test) : ~InTables(r)) =>
          pc \in BeforeCleaning \cup {"error"}
    /\ (HandOff1 \/ HandOff2) =>
          /\ \A i \in DOMAIN train.rows :
                /\ InTables(train.rows[i])
                /\ train_copy[i][3] = (IF train.rows[i].Sex = "female" THEN 0 ELSE 1)
                /\ train_copy[i][IF HandOff1 THEN 6 ELSE 5] \in {0, 1, 2}
          /\ \A i \in DOMAIN test.rows :
                /\ InTables(test.rows[i])
                /\ test_copy[i][2] = (IF test.rows[i].Sex = "female" THEN 0 ELSE 1)
                /\ test_copy[i][IF HandOff1 THEN 5 ELSE 4] \in {0, 1, 2}

\* C20 witness: the first cleaning cell has stopped with an error on a test record
\* whose port is in no table, after it had cleaned train.
C20_Witness ==
    /\ pc = "error"
    /\ "Title" \in DOMAIN train.rows[1]
    /\ test.rows[NTest].Embarked = "X"
    /\ train_copy.rows[1].Sex = 1
    /\ train_copy.rows[1].Embarked = 0

\* the quotient q = <<numerator, denominator>> equals a / b
QuotientIs(q, a, b) == q[2] # 0 /\ b # 0 /\ q[1] * b = a * q[2]

\* C22: in the second variant, the per-person fare of every record equals its
\* fare divided by the number of persons in its family, that is by
\* FamilySize = SibSp + Parch + 1.
C22_AsStated ==
    Cleaned2 =>
        \A r \in Rows(train_copy) \cup Rows(test_copy) :
            QuotientIs(r.FarePerPerson, r.Fare, r.SibSp + r.Parch + 1)

\* the condition of the k-th fare assignment and of the k-th age assignment on
\* a value v found in the column (fares in 1/FareUnit, ages in whole years)
FareMatched(k, v) ==
    IF k = 1 THEN v <= FareEdge1
    ELSE IF k = 2 THEN FareEdge1 < v /\ v <= FareEdge2
    ELSE IF k = 3 THEN FareEdge2 < v /\ v <= FareEdge3
    ELSE FareEdge3 < v
AgeMatched(k, v) ==
    IF k = 1 THEN v <= AgeEdge1
    ELSE IF k = 2 THEN AgeEdge1 < v /\ v <= AgeEdge2
    ELSE IF k = 3 THEN AgeEdge2 < v /\ v <= AgeEdge3
    ELSE IF k = 4 THEN AgeEdge3 < v /\ v <= AgeEdge4
    ELSE AgeEdge4 < v

\* the values a fare column cell and an age column cell go through: the value
\* found, then the value after each assignment
FareTrace(f) ==
    <<f, FareStep1(f), FareStep2(FareStep1(f)), FareStep3(FareStep2(FareStep1(f))), MapFare(f)>>
AgeTrace(a) ==
    <<a, AgeStep1(a), AgeStep2(AgeStep1(a)), AgeStep3(AgeStep2(AgeStep1(a))),
      AgeStep4(AgeStep3(AgeStep2(AgeStep1(a)))), MapAge(a)>>

\* hits[m]: the m-th assignment found its condition true on the value then in
\* the cell; orig[m]: the original value satisfies the m-th condition
FareHits(f) == [m \in 1..4 |-> FareMatched(m, FareTrace(f)[m])]
FareOrig(f) == [m \in 1..4 |-> FareMatched(m, f)]
AgeHits(a) == [m \in 1..5 |-> AgeMatched(m, AgeTrace(a)[m])]
AgeOrig(a) == [m \in 1..5 |-> AgeMatched(m, a)]

\* Of the assignments of a trace, exactly one finds its condition true, the one
\* whose condition the original value satisfies; it writes its code (unit is the
\* value of code 1), and every later assignment leaves that code in place.
OneShot(trace, hits, orig, unit) ==
    \E k \in DOMAIN hits :
        /\ orig[k]
        /\ \A m \in DOMAIN hits : hits[m] <=> m = k
        /\ \A m \in 1..k : trace[m] = trace[1]
        /\ \A m \in (k + 1)..Len(trace) : trace[m] = (k - 1) * unit

\* C25: the in-place, step-by-step fare and age bucketing gives every record the
\* same code as bucketing its original value in one shot: no code written by an
\* earlier step is matched and re-bucketed by a later step, for every fare >= 0
\* and every age >= 0 (fares in the first variant, ages in both).
C25_InPlaceIsOneShot ==
    /\ Cleaned1 =>
          \A df \in {<<train, train_copy>>, <<test, test_copy>>} :
              \A i \in DOMAIN df[1].rows :
                  /\ (LET f == df[1].rows[i].Fare
                      IN OneShot(FareTrace(f), FareHits(f), FareOrig(f), FareUnit))
                  /\ df[2].rows[i].Fare = FareCodeClaimed(df[1].rows[i].Fare)
    /\ (Cleaned1 \/ Cleaned2) =>
          \A df \in {<<train, train_copy>>, <<test, test_copy>>} :
              \A i \in DOMAIN df[1].rows :
                  df[1].rows[i].Age >= 0 =>
                      /\ (LET a == df[1].rows[i].Age
                         IN OneShot(AgeTrace(a), AgeHits(a), AgeOrig(a), 1))
                      /\ df[2].rows[i].Age = AgeCodeClaimed(df[1].rows[i].Age)

\* C25 witness: the first variant has bucketed a fare of 0, which is the code
\* the first assignment writes, and an age of 0 years; both have code 0, and a
\* fare above 31 of the first train record has code 3.
C25_Witness ==
    /\ Cleaned1
    /\ train.rows[NTrain].Fare = 0 /\ train_copy.rows[NTrain].Fare = 0
    /\ test.rows[NTest].Age = 0 /\ test_copy.rows[NTest].Age = 0
    /\ train.rows[2].Fare > FareEdge3 /\ train_copy.rows[2].Fare = 3

\* C29: after variant 1's cleaning every cell of the matrix lies in its code
\* range: Sex in {0,1}, Embarked in {0,1,2}, Title in 0..5, Fare in 0..3, Age in
\* 0..4, IsAlone in {0,1}, for every record of both datasets and every input
\* with non-negative age and fare.
C29_CodeRanges ==
    Cleaned1 =>
        \A r \in Rows(train_copy) \cup Rows(test_copy) :
            /\ r.Sex \in {0, 1}
            /\ r.Embarked \in {0, 1, 2}
            /\ r.Title \in 0..5
            /\ r.Fare \in 0..3
            /\ r.Age \in 0..4
            /\ r.IsAlone \in {0, 1}

\* C29 witness: the first cleaning cell has run on a train record with the
\* highest fare, 512.3292, coded 3, and on a test record of 80 years, coded 4.
C29_Witness ==
    /\ Cleaned1
    /\ train.rows[NTrain].Fare = TopFare /\ train_copy.rows[NTrain].Fare = 3
    /\ test.rows[NTest].Age = TopAge \div AgeUnit /\ test_copy.rows[NTest].Age = 4

(***************************************************************************)
(* Properties of two runs on the same files (SpecTwice).                   *)
(***************************************************************************)
\* the second run has made the matrices that the first run had made
SecondHandOff == pc = earlier.at

\* the columns of the train and test matrices that hold Age
TrainAgeColumn == CHOOSE j \in DOMAIN Retained1 : Retained1[j] = "Age"
TestAgeColumn == TrainAgeColumn - 1

\* the cells (row, column) in which two matrices of the same shape differ
Differing(m1, m2) ==
    UNION {{<<i, j>> : j \in {k \in DOMAIN m1[i] : m1[i][k] # m2[i][k]}} : i \in DOMAIN m1}

\* C21: derived columns are deterministic functions of the raw columns.  Two
\* runs of the feature-engineering pipeline on the same train and test input
\* produce matrices of the same shape that are identical in every cell except
\* the age code of records whose raw age was missing.
C21_Deterministic ==
    SecondHandOff =>
        /\ DOMAIN train_copy = DOMAIN earlier.out[1]
        /\ DOMAIN test_copy = DOMAIN earlier.out[2]
        /\ \A i \in DOMAIN train_copy : Len(train_copy[i]) = Len(earlier.out[1][i])
        /\ \A i \in DOMAIN test_copy : Len(test_copy[i]) = Len(earlier.out[2][i])
        /\ \A c \in Differing(earlier.out[1], train_copy) :
              c[2] = TrainAgeColumn /\ IsNaN(earlier.train.rows[c[1]].Age)
        /\ \A c \in Differing(earlier.out[2], test_copy) :
              c[2] = TestAgeColumn /\ IsNaN(earlier.test.rows[c[1]].Age)

\* C21 witness: two runs have made the matrices of the second variant from a
\* train.csv whose last record has no age; the age codes drawn for it differ
\* and nothing else does.
C21_Witness ==
    /\ SecondHandOff
    /\ pc = "done"
    /\ IsNaN(earlier.train.rows[NTrain].Age)
    /\ Differing(earlier.out[1], train_copy) = {<<NTrain, TrainAgeColumn>>}
    /\ Differing(earlier.out[2], test_copy) = {}

(***************************************************************************)
(* Properties of the whole notebook (SpecRun).                             *)
(***************************************************************************)
\* a submission cell has run
Submitted == prediction # Unset

\* the PassengerId of the i-th record of test.csv
FilePassengerId(i) ==
    IF i < NTest THEN TestRows[i].PassengerId ELSE TestProbeBase.PassengerId

\* C17: the submission file written by either variant has exactly the two
\* columns PassengerId and Survived and exactly one row per test record, each row
\* carrying that record's original PassengerId, in the test file's order (and a
\* label the classifier was fitted on); the DataFrame read back from it is the same
\* table.
C17_SubmissionFile ==
    Submitted =>
        /\ csv.header = <<"PassengerId", "Survived">>
        /\ Len(csv.lines) = NTest
        /\ \A i \in 1..NTest :
              /\ Len(csv.lines[i]) = 2
              /\ csv.lines[i][1] = FilePassengerId(i)
              /\ csv.lines[i][2] \in {0, 1}
        /\ submission.cols = csv.header
        /\ \A i \in 1..NTest :
              /\ submission.rows[i].PassengerId = FilePassengerId(i)
              /\ submission.rows[i].Survived = csv.lines[i][2]

\* C17 witness: the second variant has written its file; its first line is for
\* passenger 892 and its last for the last test record, predicted to survive.
C17_Witness ==
    /\ pc = After("Submit2")
    /\ csv.lines[1][1] = 892
    /\ csv.lines[NTest] = <<TestProbeBase.PassengerId, 1>>

\* the cells of a variant after its TPOT cell, and the cells that then prepare the
\* other variant: these give the names train_copy and test_copy to new tables
\* (train.copy(), test.copy()) while X and y still are the handed train matrix
AfterFit == {"Submit1", "Snapshot1", "Submit2", "Snapshot2"}
NextVariant == {"Clean2", "Select2"}

\* C18: once a variant's train and test matrices have been handed to the
\* model-fitting library, no later step of the notebook modifies them.  The steps
\* of the cells after a TPOT cell leave the matrices train_copy and test_copy, the
\* views X and y on the train matrix, the split parts and what the classifier was
\* fitted on as they are; the cells of the next variant leave X, y, the split
\* parts and the classifier as they are until its own TPOT cell; and what was
\* handed over was made from the tables by the selection cell just before.
C18_NoMutationAfterHandOff ==
    [][/\ pc \in AfterFit =>
             /\ train_copy' = train_copy /\ test_copy' = test_copy
             /\ X' = X /\ y' = y
             /\ X_train' = X_train /\ X_test' = X_test
             /\ y_train' = y_train /\ y_test' = y_test
             /\ tpot' = tpot
       /\ pc \in NextVariant =>
             /\ X' = X /\ y' = y
             /\ X_train' = X_train /\ X_test' = X_test
             /\ y_train' = y_train /\ y_test' = y_test
             /\ tpot' = tpot
       /\ pc \in {"Fit1", "Fit2"} =>
             /\ train_copy' = train_copy /\ test_copy' = test_copy
             /\ \A i \in DOMAIN train_copy : <<y'[i]>> \o X'[i] = train_copy[i]
             /\ tpot'.X = X_train' /\ tpot'.y = y_train'
             /\ \A i \in DOMAIN X_train' : \E k \in DOMAIN X' :
                    X_train'[i] = X'[k] /\ y_train'[i] = y'[k]]_pc

\* C18 witness: the notebook has run to its end, and X and y still are the train
\* matrix of the second variant, the classifier still has its 2 of the 3 records.
C18_Witness ==
    /\ pc = "done"
    /\ Len(snapshots) = 3
    /\ \A i \in DOMAIN train_copy : <<y[i]>> \o X[i] = train_copy[i]
    /\ tpot.X = X_train /\ Len(tpot.X) = (3 * NTrain) \div 4
    /\ Len(prediction) = Len(test_copy)

\* the feature columns the claim gives each variant, in order
Features1 == <<"Pclass", "Sex", "Age", "Fare", "Embarked", "IsAlone", "Title">>
Features2 == <<"Pclass", "Sex", "Age", "Embarked", "FamilySize", "Title", "FarePerPerson">>

\* a matrix without its first column
WithoutFirst(m) == [i \in DOMAIN m |-> SubSeq(m[i], 2, Len(m[i]))]

\* the train-only helper columns
Helpers == {"CategoricalAge", "CategoricalFare"}

\* C26: in both variants the training matrix with its first column removed has
\* the same feature columns, in the same order, as the test matrix passed to
\* predict (variant 1: Pclass, Sex, Age, Fare, Embarked, IsAlone, Title; variant
\* 2: Pclass, Sex, Age, Embarked, FamilySize, Title, FarePerPerson), the
\* train-only helper columns CategoricalAge and CategoricalFare being removed
\* (stated of the steps of the selection, TPOT and submission cells).
C26_ColumnsAligned ==
    [][/\ pc = "Select1" =>
             /\ WithoutFirst(train_copy') = Picked(train_copy, Features1)
             /\ test_copy' = Picked(test_copy, Features1)
             /\ Helpers \subseteq Range(train_copy.cols)
             /\ Helpers \cap Range(test_copy.cols) = {}
       /\ pc = "Select2" =>
             /\ WithoutFirst(train_copy') = Picked(train_copy, Features2)
             /\ test_copy' = Picked(test_copy, Features2)
             /\ Helpers \subseteq Range(train_copy.cols)
             /\ Helpers \cap Range(test_copy.cols) = {}
       /\ pc \in {"Fit1", "Fit2"} =>
             /\ X' = WithoutFirst(train_copy)
             /\ \A i \in DOMAIN X', k \in DOMAIN test_copy : Len(X'[i]) = Len(test_copy[k])
       /\ pc \in {"Submit1", "Submit2"} =>
             /\ DOMAIN prediction' = DOMAIN test_copy
             /\ \A i \in DOMAIN tpot.X, k \in DOMAIN test_copy :
                    Len(tpot.X[i]) = Len(test_copy[k])]_pc

\* C26 witness: the second variant has predicted from a test matrix whose last
\* record has its FamilySize (1) in the fifth column, as the fitted rows have.
C26_Witness ==
    /\ pc = After("Submit2")
    /\ Len(test_copy[NTest]) = Len(Features2)
    /\ test_copy[NTest][5] = test.rows[NTest].FamilySize
    /\ \A i \in DOMAIN tpot.X : Len(tpot.X[i]) = Len(Features2)
    /\ \A i \in DOMAIN X : X[i][5] = train.rows[i].FamilySize

\* the Survived column of train.csv
SurvivedColumn == [i \in DOMAIN train.rows |-> train.rows[i].Survived]

\* C27: in both variants column 0 of the training matrix is the survival label:
\* y is exactly the Survived column and the feature matrix X given to fit and
\* score contains no column holding the label.  The selection cell puts Survived
\* first and nowhere else; the TPOT cell takes y from that column and X from the
\* other columns, and every row given to fit or to score is a row of X with its
\* own label.
C27_LabelColumn ==
    [][/\ pc \in {"Select1", "Select2"} =>
             /\ train_copy.cols[2] = "Survived"
             /\ \A j \in DOMAIN train_copy.cols : j # 2 => train_copy.cols[j] # "Survived"
             /\ "PassengerId" \in drop_elements1 \cap drop_elements2
             /\ \A i \in DOMAIN train_copy' : train_copy'[i][1] = SurvivedColumn[i]
       /\ pc \in {"Fit1", "Fit2"} =>
             /\ y' = SurvivedColumn
             /\ X' = WithoutFirst(train_copy)
             /\ \A i \in DOMAIN X' : Len(X'[i]) = Len(train_copy[i]) - 1
             /\ tpot'.X = X_train' /\ tpot'.y = y_train'
             /\ \A i \in DOMAIN X_train' : \E k \in DOMAIN X' :
                    X_train'[i] = X'[k] /\ y_train'[i] = SurvivedColumn[k]
             /\ \A i \in DOMAIN X_test' : \E k \in DOMAIN X' :
                    X_test'[i] = X'[k] /\ y_test'[i] = SurvivedColumn[k]]_pc

\* C27 witness: the TPOT cell of the first variant has run; y holds the labels
\* 0, 1, 1 of the three train records and X their seven feature columns, the
\* first of them Pclass.
C27_Witness ==
    /\ pc = After("Fit1")
    /\ y = SurvivedColumn
    /\ y[1] = 0 /\ y[2] = 1
    /\ \A i \in DOMAIN X : Len(X[i]) = Len(Features1) /\ X[i][1] = train.rows[i].Pclass
    /\ Len(y_train) + Len(y_test) = NTrain

\* the cells of the two variants
VariantCells ==
    {"Clean1", "Select1", "Fit1", "Submit1", "Snapshot1",
     "Clean2", "Select2", "Fit2", "Submit2", "Snapshot2"}

\* C28: the cleaning and column-selection steps of a variant work on copies.
\* No step of a cell of either variant changes the train and test tables of the
\* exploratory stage (their Fare and Age columns, and every other column), so
\* the second variant starts from the tables the first one started from; the
\* cleaning cells write the codes into train_copy and test_copy only.
C28_VariantsWorkOnCopies ==
    [][/\ pc \in VariantCells =>
             /\ Column(train', "Fare") = Column(train, "Fare")
             /\ Column(test', "Fare") = Column(test, "Fare")
             /\ Column(train', "Age") = Column(train, "Age")
             /\ Column(test', "Age") = Column(test, "Age")
             /\ train' = train
             /\ test' = test
       /\ (pc \in {"Clean1", "Clean2"} /\ pc' # "error") =>
             \A i \in DOMAIN train.rows :
                 /\ train_copy'.rows[i].PassengerId = train.rows[i].PassengerId
                 /\ train_copy'.rows[i].Sex \in {0, 1}
                 /\ train.rows[i].Sex \in {"female", "male"}]_pc

\* C28 witness: the second variant is about to start after the whole first
\* variant; the first train record still has its fare of 7.25, its age of 22
\* and its sex in train, while the matrix of the first variant holds the codes
\* 1 (male), 1 (age) and 0 (fare) for it.
C28_Witness ==
    /\ pc = "Clean2"
    /\ Len(snapshots) = 2
    /\ train.rows[1].Fare = TrainRows[1].Fare
    /\ train.rows[1].Age = TrainRows[1].Age \div AgeUnit
    /\ train.rows[1].Sex = "male"
    /\ SubSeq(train_copy[1], 3, 5) = <<1, 1, 0>>

\* the snapshot cells that have run, in the order of the notebook
SnapshotCells == <<"SnapshotEDA", "Snapshot1", "Snapshot2">>
HasRun(c) ==
    \/ pc = "done"
    \/ /\ pc \in Range(cells)
       /\ (CHOOSE k \in DOMAIN cells : cells[k] = c) < (CHOOSE k \in DOMAIN cells : cells[k] = pc)
MessageOf(c) ==
    IF c = "SnapshotEDA" THEN "EDA" ELSE IF c = "Snapshot1" THEN "auto-ml-1" ELSE "auto-ml-2"
\* the features the notebook gives the snapshot with message m as its config
FeaturesOf(m) ==
    IF m = "EDA"
    THEN <<"Sex", "Pclass", "FamilySize", "IsAlone", "Embarked", "Fare", "Age", "Title">>
    ELSE IF m = "auto-ml-1"
    THEN <<"Sex", "Pclass", "Age", "Fare", "Embarked", "Fare", "IsAlone", "Title">>
    ELSE <<"Sex", "Pclass", "Age", "Fare", "Embarked", "FarePerPerson", "FamilySize", "Title">>

TitleAt(name, p, q) ==
    /\ p \in DOMAIN name /\ q \in DOMAIN name /\ p < q /\ q < Len(name)
    /\ name[p] = " "
    /\ \A m \in (p + 1)..q : name[m] \in Letters
    /\ name[q + 1] = "."

HasTitle(name) == \E p, q \in DOMAIN name : TitleAt(name, p, q)

\* C5: get_title(name) returns the first run of letters of the name that is
\* immediately preceded by a space and immediately followed by a period
\* ("Braund, Mr. Owen Harris" yields "Mr"), and the empty string when the name
\* contains no such pattern.
C5_GetTitle ==
    t_pc = "group" =>
        /\ ~HasTitle(t_name) => t_title = <<>>
        /\ HasTitle(t_name) =>
              \E p, q \in DOMAIN t_name :
                  /\ TitleAt(t_name, p, q)
                  /\ t_title = SubSeq(t_name, p + 1, q)
                  /\ \A p2, q2 \in DOMAIN t_name : TitleAt(t_name, p2, q2) => p <= p2
        /\ t_name = Braund => t_title = Mr

\* C5 witness: the title of the name with two candidates is the first one.
C5_Witness == t_pc = "group" /\ t_name = TwoTitleName /\ t_title = Mrs

(***************************************************************************)
(* Properties of the Otto label normalisation (SpecOtto).                  *)
(***************************************************************************)
RECURSIVE Decimal(_)
\* the decimal digits of a natural number
Decimal(n) ==
    IF n < 10 THEN <<DigitChars[n + 1]>>
    ELSE Decimal(n \div 10) \o <<DigitChars[(n % 10) + 1]>>

IntegerMax == DigitsValue(IntMaxDigits)
\* the numbers n whose class strings the model builds
ClassNumbers == {1, 9, 10, 11, 19, 90, 91, 99, 100, 109, 901, 999, IntegerMax}
\* IntegerMax + 1, in digits
AboveIntegerMax == <<"2","1","4","7","4","8","3","6","4","8">>

\* C9 as stated: every class string "Class_<n>", n a positive integer, is mapped
\* to n - 1 (for n = 2147483648, to 2147483647).
C9_AsStated ==
    o_pc = "done" =>
        /\ \A n \in ClassNumbers : o_class = Class_ \o Decimal(n) => o_y = n - 1
        /\ o_class = Class_ \o AboveIntegerMax => o_y = IntegerMax

\* C9, amended: every class string "Class_<n>" with 1 <= n <= 2147483647 is mapped
\* to n - 1, so "Class_1" gives 0 and "Class_9" gives 8.
C9_ClassToInteger ==
    o_pc = "done" =>
        \A n \in ClassNumbers : o_class = Class_ \o Decimal(n) => o_y = n - 1

\* C9 witness: "Class_9" has given 8.
C9_Witness == o_pc = "done" /\ o_class = Class_ \o <<"9">> /\ o_y = 8

\* a string of the form "Class_<int>": the prefix, an optional minus sign, digits
ClassForm(s) ==
    /\ Len(s) > Len(Class_)
    /\ SubSeq(s, 1, Len(Class_)) = Class_
    /\ LET rest == SubSeq(s, Len(Class_) + 1, Len(s))
           body == IF Head(rest) = "-" THEN Tail(rest) ELSE rest
       IN body # <<>> /\ \A i \in DOMAIN body : body[i] \in Digits

OttoFeatures == <<"feat_1", "feat_2">>

\* the chunks after the matrices are made
AfterMatrices ==
    {"crossValidation", "modelTraining", "ControlParams", "trainModels",
     "optimalParams", "modelTraining2"}

\* C23: in the Otto pipeline the label vector y is extracted from the training
\* table before the label column is deleted, and the training matrix handed to
\* XGBoost contains neither the id column nor the label column (and the test
\* matrix no id column).  Stated of the steps of the chunks: y is made while
\* train has its target column, one label per row; the deletion that follows
\* removes target and leaves y; the matrices are the feature columns of the
\* tables; both models and the grid search get these matrices and y.
C23_LabelBeforeDelete ==
    [][/\ o_pc = "classToIntegers" =>
             /\ "target" \in Range(o_train.cols)
             /\ Len(o_y') = Len(o_train.rows)
             /\ \A i \in DOMAIN o_train.rows : \A n \in ClassNumbers :
                    o_train.rows[i].target = Class_ \o Decimal(n) => o_y'[i] = n - 1
       /\ o_pc = "deleteCols" =>
             /\ Len(o_y) = Len(o_train.rows)
             /\ o_y' = o_y
             /\ "target" \in Range(o_train.cols)
             /\ "target" \notin Range(o_train'.cols)
       /\ o_pc = "convertToNumericMatrix" =>
             /\ Range(o_train.cols) \cap {"id", "target"} = {}
             /\ "id" \notin Range(o_test.cols)
             /\ trainMatrix' = Picked(o_train, OttoFeatures)
             /\ testMatrix' = Picked(o_test, OttoFeatures)
       /\ o_pc \in AfterMatrices =>
             /\ trainMatrix' = trainMatrix
             /\ testMatrix' = testMatrix
             /\ o_y' = o_y
       /\ o_pc = "modelTraining" => bst'.data = trainMatrix /\ bst'.label = o_y
       /\ o_pc = "trainModels" => xgb_train_1'.x = trainMatrix /\ xgb_train_1'.y = o_y
       /\ o_pc = "modelTraining2" =>
             bst_optimal'.data = trainMatrix /\ bst_optimal'.label = o_y]_o_pc

\* C23 witness: both models are trained; the last train row, of Class_9, has the
\* label 8 and its two features in the matrix, the last test row its two.
C23_Witness ==
    /\ o_pc = "done"
    /\ o_y[1] = 0 /\ o_y[NOtto] = 8
    /\ trainMatrix[NOtto] = <<NOtto, 0>>
    /\ testMatrix[NOtto] = <<0, NOtto>>
    /\ bst.data = trainMatrix /\ bst_optimal.data = trainMatrix
    /\ bst_optimal.label = o_y

\* the combination the notebook reports as the optimum of the search: nrounds =
\* 50, max_depth = 10, eta = 0.01, gamma = 1, colsample_bytree = 1,
\* min_child_weight = 0.75, subsample = 1
ReportedOptimum ==
    [nrounds |-> 50 * ParamUnit, max_depth |-> 10 * ParamUnit, eta |-> ParamUnit \div 100,
     gamma |-> ParamUnit, colsample_bytree |-> ParamUnit,
     min_child_weight |-> (3 * ParamUnit) \div 4, subsample |-> ParamUnit]
Hyperparameters == DOMAIN ReportedOptimum

\* the values of hyperparameter h in the searched grid
GridValues(h) == {g[h] : g \in xgb_grid_1}

\* the list of optimal parameters has been made
OptimalParamsMade == o_pc \in {"modelTraining2", "done"}

ClassOfNumber(s) ==
    /\ Len(s) > Len(Class_)
    /\ SubSeq(s, 1, Len(Class_)) = Class_
    /\ \A i \in (Len(Class_) + 1)..Len(s) : s[i] \in Digits
    /\ s[Len(Class_) + 1] # "0"

\* the number n of such a string is at most 2147483647
WithinIntegerMax(s) == FitsInteger(SubSeq(s, Len(Class_) + 1, Len(s)))

\* the class strings of train, while it has its target column
Targets == {o_train.rows[i].target : i \in DOMAIN o_train.rows}

\* the chunks that make numberOfClasses and param
NumClassChunks == {"crossValidation", "ControlParams"}

\* C30 as stated: num_class equals max(y) + 1 and every label satisfies
\* 0 <= y < num_class whenever all class strings have the form "Class_<n>" with
\* n >= 1 (stated of the steps that make y, numberOfClasses and param).
C30_AsStated ==
    [][/\ (o_pc = "classToIntegers" /\ \A s \in Targets : ClassOfNumber(s)) =>
             \A i \in DOMAIN o_y' : 0 <= o_y'[i] /\ o_y'[i] < SetMax(Range(o_y')) + 1
       /\ (o_pc \in NumClassChunks /\ \A i \in DOMAIN o_y : o_y[i] >= 0) =>
             /\ numberOfClasses' = SetMax(Range(o_y)) + 1
             /\ param'.num_class = numberOfClasses'
             /\ \A i \in DOMAIN o_y : 0 <= o_y[i] /\ o_y[i] < param'.num_class]_o_pc

\* C30, amended: the same whenever all class strings have the form "Class_<n>"
\* with 1 <= n <= 2147483647; a larger n gives the label NA, and then max(y),
\* numberOfClasses and num_class are NA.
C30_NumClass ==
    [][/\ (o_pc = "classToIntegers"
               /\ \A s \in Targets : ClassOfNumber(s) /\ WithinIntegerMax(s)) =>
             \A i \in DOMAIN o_y' : 0 <= o_y'[i] /\ o_y'[i] < SetMax(Range(o_y')) + 1
       /\ (o_pc = "classToIntegers"
               /\ \E s \in Targets : ClassOfNumber(s) /\ ~WithinIntegerMax(s)) =>
             \E i \in DOMAIN o_y' : IsNaN(o_y'[i])
       /\ (o_pc \in NumClassChunks /\ \A i \in DOMAIN o_y : o_y[i] >= 0) =>
             /\ numberOfClasses' = SetMax(Range(o_y)) + 1
             /\ param'.num_class = numberOfClasses'
             /\ \A i \in DOMAIN o_y : 0 <= o_y[i] /\ o_y[i] < param'.num_class
       /\ (o_pc \in NumClassChunks /\ \E i \in DOMAIN o_y : IsNaN(o_y[i])) =>
             IsNaN(numberOfClasses') /\ IsNaN(param'.num_class)]_o_pc

\* C30 witness: the classes Class_1 and Class_2147483647 have the labels 0 and
\* 2147483646, and both parameter lists have num_class 2147483647.
C30_Witness ==
    /\ o_pc = "done"
    /\ o_y[1] = 0 /\ o_y[NOtto] = IntegerMax - 1
    /\ numberOfClasses = IntegerMax
    /\ param.num_class = IntegerMax
    /\ xgb_optimal_params.num_class = IntegerMax

====
